---- MODULE Spec2Model ----
(***************************************************************************)
(* A model of lib/ofp-util.c (Open vSwitch): the conversion between the    *)
(* OpenFlow wire match and the classifier rule, match normalization, and   *)
(* the validation and iteration of action runs.                            *)
(*                                                                         *)
(* Representation.  A 32-bit word that the code treats as a bit mask (the  *)
(* wildcard word, an IPv4 address, a netmask, the classifier's wildcard    *)
(* set) is the set of its 1 bits, a subset of 0..31, bit 0 the least       *)
(* significant: & is \cap, | is \cup, ~ is the complement in 0..31.  The   *)
(* 64-bit cookie is a subset of 0..63.  Every multi-byte field is held by  *)
(* its numeric value, i.e. as ntohs()/ntohl() read it, so the byte swaps   *)
(* of the code do not appear.                                              *)
(***************************************************************************)
EXTENDS Integers, Sequences, FiniteSets, TLC

VARIABLES
    pc,         \* where the caller stands: "match", "rule", "out", ...
    m0,         \* the wire match as the caller first supplied it
    m,          \* the wire match (struct ofp_match), normalized in place
    normalized, \* number of normalize_match() calls made on m
    n0,         \* a second wire match, as supplied
    n,          \* the second wire match, normalized in place
    args,       \* the arguments of ofputil_cls_rule_from_match()
    rule,       \* the struct cls_rule it filled in
    out,        \* the struct ofp_match ofputil_cls_rule_to_match() filled in
    actions,    \* the action run: a sequence of 8-byte slots
    max_ports,  \* validate_actions()'s max_ports
    little_endian, \* whether the host is little-endian
    i,          \* validate_actions()'s index into the run
    error,      \* validate_actions()'s return value, or Running
    visited,    \* the slots validate_actions() took as the start of an action
    dispatched, \* the slots it handed to check_action()
    inspected,  \* every slot it read
    iter,       \* struct actions_iterator: pos and end, or NoIter
    yielded,    \* what actions_first()/actions_next() returned, in order
    last,       \* the last return value of actions_first()/actions_next()
    osr,        \* the stats reply: its header length and its records' lengths
    fs_iter,    \* struct flow_stats_iterator: pos and end, as body offsets
    fs_ret,     \* the last return value of flow_stats_first()/_next()
    fs_yielded, \* the records returned so far: offset and declared length
    fs_read,    \* whether the last call read a record's length field
    fs_nulls,   \* the calls that returned NULL so far
    fs_null_pos, \* the cursor when NULL was first returned
    req,        \* the message builder called and its arguments
    buf,        \* the struct ofpbuf it returned: header fields and contents
    next_xid,   \* alloc_xid()'s static counter
    n_built,    \* the messages built so far
    xid_pc,     \* per thread: where it is inside alloc_xid()
    xid_reg,    \* per thread: the value of next_xid it read
    issued,     \* the ids alloc_xid() returned, in order of return
    pull_b,     \* ofputil_pull_actions()'s struct ofpbuf: data and size
    pulled,     \* its last call: actions_len, return value and outputs
    n_pulls,    \* the calls of ofputil_pull_actions() so far
    nm_wcbits,  \* the argument of ofputil_wcbits_to_netmask()
    nm_mask,    \* the mask it returned
    nm_back     \* ofputil_netmask_to_wcbits() of that mask

vars == <<pc, m0, m, normalized, n0, n, args, rule, out, actions, max_ports,
          little_endian, i, error, visited, dispatched, inspected, iter, yielded, last,
          osr, fs_iter, fs_ret, fs_yielded, fs_read, fs_nulls, fs_null_pos,
          req, buf, next_xid, n_built, xid_pc, xid_reg, issued,
          pull_b, pulled, n_pulls, nm_wcbits, nm_mask, nm_back>>

matchVars   == <<m0, m, normalized, n0, n, args, rule, out>>
actionVars  == <<actions, max_ports, little_endian, i, error, visited, dispatched,
                 inspected, iter, yielded, last>>
statsVars   == <<osr, fs_iter, fs_ret, fs_yielded, fs_read, fs_nulls,
                 fs_null_pos>>
msgVars     == <<req, buf, next_xid, n_built>>
xidVars     == <<xid_pc, xid_reg, issued>>
pullVars    == <<pull_b, pulled, n_pulls>>
netmaskVars == <<nm_wcbits, nm_mask, nm_back>>
auxVars     == <<xidVars, pullVars, netmaskVars>>
restVars    == <<statsVars, msgVars, auxVars>>

----------------------------------------------------------------------------
(* Bit masks as sets of bit positions.                                     *)

Word32 == 0 .. 31

\* The value of the bits b of a word, read as a number.
RECURSIVE ToNat(_)
ToNat(b) ==
    IF b = {} THEN 0
    ELSE LET k == CHOOSE x \in b : \A y \in b : y <= x
         IN  2 ^ k + ToNat(b \ {k})

\* The bits of the number v.
RECURSIVE FromNat(_)
FromNat(v) ==
    IF v = 0 THEN {}
    ELSE LET k == CHOOSE x \in 0 .. 30 : 2 ^ x <= v /\ (x = 30 \/ v < 2 ^ (x + 1))
         IN  {k} \cup FromNat(v - 2 ^ k)

\* w >> s and w << s on 32-bit words.
Shr(w, s) == { k - s : k \in { x \in w : x >= s } }
Shl(w, s) == { k + s : k \in { x \in w : x + s <= 31 } }

\* ~w
Not32(w) == Word32 \ w

----------------------------------------------------------------------------
(* enum ofp_flow_wildcards (openflow.h), the Nicira extension bit          *)
(* (nicira-ext.h) and the classifier's FWW_* bits (flow.h).                *)

OFPFW_IN_PORT     == {0}
OFPFW_DL_VLAN     == {1}
OFPFW_DL_SRC      == {2}
OFPFW_DL_DST      == {3}
OFPFW_DL_TYPE     == {4}
OFPFW_NW_PROTO    == {5}
OFPFW_TP_SRC      == {6}
OFPFW_TP_DST      == {7}
OFPFW_NW_SRC_SHIFT == 8
OFPFW_NW_SRC_MASK == 8 .. 13
OFPFW_NW_DST_SHIFT == 14
OFPFW_NW_DST_MASK == 14 .. 19
OFPFW_DL_VLAN_PCP == {20}
OFPFW_NW_TOS      == {21}
OFPFW_ALL         == 0 .. 21
NXFW_TUN_ID       == {25}
OVSFW_ALL         == OFPFW_ALL \cup NXFW_TUN_ID

FWW_IN_PORT     == {0}
FWW_DL_VLAN     == {1}
FWW_DL_SRC      == {2}
FWW_DL_DST      == {3}
FWW_DL_TYPE     == {4}
FWW_NW_PROTO    == {5}
FWW_TP_SRC      == {6}
FWW_TP_DST      == {7}
FWW_DL_VLAN_PCP == {8}
FWW_NW_TOS      == {9}
FWW_TUN_ID      == {10}
FWW_ETH_MCAST   == {11}

\* The FWW_* and OFPFW_* bits with the same value, meaning and name.
WC_INVARIANTS ==
    FWW_IN_PORT \cup FWW_DL_VLAN \cup FWW_DL_SRC \cup FWW_DL_DST
    \cup FWW_DL_TYPE \cup FWW_NW_PROTO \cup FWW_TP_SRC \cup FWW_TP_DST

NXFF_OPENFLOW10         == "NXFF_OPENFLOW10"
NXFF_TUN_ID_FROM_COOKIE == "NXFF_TUN_ID_FROM_COOKIE"

UINT16_MAX   == 65535
OFPP_LOCAL   == 65534
ODPP_LOCAL   == 0
ETH_TYPE_IP  == 2048
ETH_TYPE_ARP == 2054
IPPROTO_ICMP == 1
IPPROTO_TCP  == 6
IPPROTO_UDP  == 17
IP_DSCP_MASK == 252

ETH_ADDR_ZERO == <<0, 0, 0, 0, 0, 0>>

----------------------------------------------------------------------------
(* Netmask arithmetic.                                                     *)

\* wcbits is the int the caller passes: the wildcard word already shifted.
ofputil_wcbits_to_netmask_NoWrap(wcbits) ==
    LET c == ToNat(wcbits)
    IN  IF c < 32 THEN Not32(0 .. (c - 1))
        ELSE {}

ofputil_wcbits_to_netmask(wcbits) ==
    LET c == ToNat(wcbits \cap (0 .. 5))        \* wcbits &= 0x3f
    IN  IF c < 32 THEN Not32(0 .. (c - 1))      \* ~((1u << wcbits) - 1)
        ELSE {}

\* A CIDR netmask: 1 bits, then 0 bits.
ip_is_cidr(netmask) == \E c \in 0 .. 32 : netmask = c .. 31

\* __builtin_ctz(): the position of the lowest 1 bit.
ctz(w) == CHOOSE k \in w : \A j \in w : k <= j

ofputil_netmask_to_wcbits(netmask) ==
    IF netmask = {} THEN 32 ELSE ctz(netmask)

----------------------------------------------------------------------------
(* Wire match <-> classifier rule.                                         *)

\* a & b on two numbers held by value (8- and 16-bit fields).
AndNat(a, b) == ToNat(FromNat(a) \cap FromNat(b))

\* classifier.c: every wildcarded field of the flow is set to zero; the L3
\* addresses keep only the bits their netmask matches, and the Ethernet
\* destination is split into the multicast bit and the other 47 bits.
cls_rule_zero_wildcarded_fields(r) ==
    LET w   == r.wc.wildcards
        f   == r.flow
        d0  == f.dl_dst[1]
        d1  == IF FWW_DL_DST \cap w # {} THEN AndNat(d0, 1) ELSE d0
        d2  == IF FWW_ETH_MCAST \cap w # {} THEN AndNat(d1, 254) ELSE d1
        dst == IF FWW_DL_DST \cap w # {}
               THEN <<d2, 0, 0, 0, 0, 0>>
               ELSE [f.dl_dst EXCEPT ![1] = d2]
    IN  [r EXCEPT !.flow =
          [ tun_id      |-> IF FWW_TUN_ID \cap w # {} THEN {} ELSE f.tun_id,
            nw_src      |-> f.nw_src \cap r.wc.nw_src_mask,
            nw_dst      |-> f.nw_dst \cap r.wc.nw_dst_mask,
            in_port     |-> IF FWW_IN_PORT \cap w # {} THEN 0 ELSE f.in_port,
            dl_vlan     |-> IF FWW_DL_VLAN \cap w # {} THEN 0 ELSE f.dl_vlan,
            dl_vlan_pcp |-> IF FWW_DL_VLAN_PCP \cap w # {} THEN 0
                            ELSE f.dl_vlan_pcp,
            dl_type     |-> IF FWW_DL_TYPE \cap w # {} THEN 0 ELSE f.dl_type,
            tp_src      |-> IF FWW_TP_SRC \cap w # {} THEN 0 ELSE f.tp_src,
            tp_dst      |-> IF FWW_TP_DST \cap w # {} THEN 0 ELSE f.tp_dst,
            dl_src      |-> IF FWW_DL_SRC \cap w # {} THEN ETH_ADDR_ZERO
                            ELSE f.dl_src,
            dl_dst      |-> dst,
            nw_tos      |-> IF FWW_NW_TOS \cap w # {} THEN 0 ELSE f.nw_tos,
            nw_proto    |-> IF FWW_NW_PROTO \cap w # {} THEN 0
                            ELSE f.nw_proto ]]

\* The legal wildcard bits of a flow format.
LegalMask(flow_format) ==
    IF flow_format = NXFF_TUN_ID_FROM_COOKIE THEN OVSFW_ALL ELSE OFPFW_ALL

\* The tunnel id and its wildcard bit: lines 130-135.
TunIdFromCookie(ofpfw, flow_format, cookie) ==
    IF NXFW_TUN_ID \cap ofpfw = {}
    THEN [wild |-> {}, tun_id |-> Shr(cookie, 32)]
    ELSE [wild |-> FWW_TUN_ID, tun_id |-> {}]

\* rule->priority: line 116.
RulePriority_Inverted(ofpfw, priority) ==
    IF ofpfw # {} THEN UINT16_MAX ELSE priority
RulePriority_AllOrNone(ofpfw, priority) ==
    IF ofpfw = {} \/ OFPFW_ALL \subseteq ofpfw THEN UINT16_MAX ELSE priority
RulePriority(ofpfw, priority) ==
    IF ofpfw = {} THEN UINT16_MAX ELSE priority

ofputil_cls_rule_from_match(match, priority, flow_format, cookie) ==
    LET ofpfw == match.wildcards \cap LegalMask(flow_format)
        tun   == TunIdFromCookie(ofpfw, flow_format, cookie)
        wild  == (ofpfw \cap WC_INVARIANTS)
                 \cup (IF OFPFW_DL_VLAN_PCP \cap ofpfw # {}
                       THEN FWW_DL_VLAN_PCP ELSE {})
                 \cup (IF OFPFW_NW_TOS \cap ofpfw # {}
                       THEN FWW_NW_TOS ELSE {})
                 \cup tun.wild
                 \cup (IF OFPFW_DL_DST \cap ofpfw # {}
                       THEN FWW_ETH_MCAST ELSE {})
    IN  cls_rule_zero_wildcarded_fields(
          [ priority |-> RulePriority(ofpfw, priority),
            wc |-> [ wildcards   |-> wild,
                     nw_src_mask |-> ofputil_wcbits_to_netmask(
                                         Shr(ofpfw, OFPFW_NW_SRC_SHIFT)),
                     nw_dst_mask |-> ofputil_wcbits_to_netmask(
                                         Shr(ofpfw, OFPFW_NW_DST_SHIFT)) ],
            flow |-> [ tun_id      |-> tun.tun_id,
                       nw_src      |-> match.nw_src,
                       nw_dst      |-> match.nw_dst,
                       in_port     |-> IF match.in_port = OFPP_LOCAL
                                       THEN ODPP_LOCAL ELSE match.in_port,
                       dl_vlan     |-> match.dl_vlan,
                       dl_vlan_pcp |-> match.dl_vlan_pcp,
                       dl_type     |-> match.dl_type,
                       tp_src      |-> match.tp_src,
                       tp_dst      |-> match.tp_dst,
                       dl_src      |-> match.dl_src,
                       dl_dst      |-> match.dl_dst,
                       nw_tos      |-> match.nw_tos,
                       nw_proto    |-> match.nw_proto ] ])

\* The wildcard word rebuilt from the rule: lines 177-188.
RuleWildcards_NoTos(r, flow_format) ==
    (r.wc.wildcards \cap WC_INVARIANTS)
    \cup Shl(FromNat(ofputil_netmask_to_wcbits(r.wc.nw_src_mask)),
             OFPFW_NW_SRC_SHIFT)
    \cup Shl(FromNat(ofputil_netmask_to_wcbits(r.wc.nw_dst_mask)),
             OFPFW_NW_DST_SHIFT)
    \cup (IF FWW_DL_VLAN_PCP \cap r.wc.wildcards # {}
          THEN OFPFW_DL_VLAN_PCP ELSE {})
    \cup (IF flow_format = NXFF_TUN_ID_FROM_COOKIE
             /\ FWW_TUN_ID \cap r.wc.wildcards # {}
          THEN NXFW_TUN_ID ELSE {})
RuleWildcards(r, flow_format) ==
    (r.wc.wildcards \cap WC_INVARIANTS)
    \cup Shl(FromNat(ofputil_netmask_to_wcbits(r.wc.nw_src_mask)),
             OFPFW_NW_SRC_SHIFT)
    \cup Shl(FromNat(ofputil_netmask_to_wcbits(r.wc.nw_dst_mask)),
             OFPFW_NW_DST_SHIFT)
    \cup (IF FWW_DL_VLAN_PCP \cap r.wc.wildcards # {}
          THEN OFPFW_DL_VLAN_PCP ELSE {})
    \cup (IF FWW_NW_TOS \cap r.wc.wildcards # {} THEN OFPFW_NW_TOS ELSE {})
    \cup (IF flow_format = NXFF_TUN_ID_FROM_COOKIE
             /\ FWW_TUN_ID \cap r.wc.wildcards # {}
          THEN NXFW_TUN_ID ELSE {})

ofputil_cls_rule_to_match(r, flow_format) ==
    [ wildcards   |-> RuleWildcards(r, flow_format),
      in_port     |-> IF r.flow.in_port = ODPP_LOCAL THEN OFPP_LOCAL
                      ELSE r.flow.in_port,
      dl_vlan     |-> r.flow.dl_vlan,
      dl_vlan_pcp |-> r.flow.dl_vlan_pcp,
      dl_src      |-> r.flow.dl_src,
      dl_dst      |-> r.flow.dl_dst,
      dl_type     |-> r.flow.dl_type,
      nw_src      |-> r.flow.nw_src,
      nw_dst      |-> r.flow.nw_dst,
      nw_tos      |-> r.flow.nw_tos,
      nw_proto    |-> r.flow.nw_proto,
      tp_src      |-> r.flow.tp_src,
      tp_dst      |-> r.flow.tp_dst ]

----------------------------------------------------------------------------
(* Match normalization.                                                    *)

OFPFW_NW == OFPFW_NW_SRC_MASK \cup OFPFW_NW_DST_MASK \cup OFPFW_NW_PROTO
            \cup OFPFW_NW_TOS
OFPFW_TP == OFPFW_TP_SRC \cup OFPFW_TP_DST

\* Lines 912-917: each L3 address keeps the bits its wildcard count leaves.
\* x.wildcards holds wc.
MaskAddresses(x) ==
    [x EXCEPT
       !.nw_src = IF OFPFW_NW_SRC_MASK \cap x.wildcards # {}
                  THEN @ \cap ofputil_wcbits_to_netmask(
                                Shr(x.wildcards, OFPFW_NW_SRC_SHIFT))
                  ELSE @,
       !.nw_dst = IF OFPFW_NW_DST_MASK \cap x.wildcards # {}
                  THEN @ \cap ofputil_wcbits_to_netmask(
                                Shr(x.wildcards, OFPFW_NW_DST_SHIFT))
                  ELSE @]

\* m->nw_tos &= IP_DSCP_MASK
DscpOf_Shift(tos) == tos \div 4
DscpOf(tos) == AndNat(tos, IP_DSCP_MASK)

\* The branches of normalize_match() on the Ethernet type.  Each takes the
\* match and wc (the wildcard word cut to OVSFW_ALL) and returns the match
\* with its wildcards field holding the new wc.

\* OFPFW_DL_TYPE is set.
NormalizeNoDlType(mm, wc) ==
    [mm EXCEPT !.wildcards = wc \cup OFPFW_NW \cup OFPFW_TP,
               !.dl_type = 0, !.nw_src = {}, !.nw_dst = {},
               !.nw_proto = 0, !.nw_tos = 0, !.tp_src = 0, !.tp_dst = 0]

\* dl_type is ETH_TYPE_IP.
NormalizeIp(mm, wc) ==
    LET a == IF OFPFW_NW_PROTO \cap wc # {} THEN
                 [mm EXCEPT !.wildcards = wc \cup OFPFW_TP,
                            !.nw_proto = 0, !.tp_src = 0, !.tp_dst = 0]
             ELSE IF mm.nw_proto \in
                       {IPPROTO_TCP, IPPROTO_UDP, IPPROTO_ICMP} THEN
                 [mm EXCEPT !.wildcards = wc,
                            !.tp_src = IF OFPFW_TP_SRC \cap wc # {}
                                       THEN 0 ELSE @,
                            !.tp_dst = IF OFPFW_TP_DST \cap wc # {}
                                       THEN 0 ELSE @]
             ELSE
                 [mm EXCEPT !.wildcards = wc \cap Not32(OFPFW_TP),
                            !.tp_src = 0, !.tp_dst = 0]
        b == MaskAddresses(a)
    IN  [b EXCEPT !.nw_tos = IF OFPFW_NW_TOS \cap b.wildcards # {}
                             THEN 0 ELSE DscpOf(@)]

\* dl_type is ETH_TYPE_ARP.
NormalizeArp_ClearsTp(mm, wc) ==
    LET a == [mm EXCEPT !.wildcards = wc \cap Not32(OFPFW_TP),
                        !.nw_proto = IF OFPFW_NW_PROTO \cap wc # {}
                                     THEN 0 ELSE @]
        b == MaskAddresses(a)
    IN  [b EXCEPT !.tp_src = 0, !.tp_dst = 0, !.nw_tos = 0]
NormalizeArp(mm, wc) ==
    LET a == [mm EXCEPT !.wildcards = wc,
                        !.nw_proto = IF OFPFW_NW_PROTO \cap wc # {}
                                     THEN 0 ELSE @]
        b == MaskAddresses(a)
    IN  [b EXCEPT !.tp_src = 0, !.tp_dst = 0, !.nw_tos = 0]

\* Any other dl_type.
NormalizeOtherDlType(mm, wc) ==
    [mm EXCEPT !.wildcards = wc \cap Not32(OFPFW_NW \cup OFPFW_TP),
               !.nw_proto = 0, !.nw_src = {}, !.nw_dst = {},
               !.nw_tos = 0, !.tp_src = 0, !.tp_dst = 0]

\* Lines 941-946, on the match whose wildcards field holds wc.
ZeroWildcardedDl_SrcOnly(a) ==
    [a EXCEPT !.dl_src = IF OFPFW_DL_SRC \cap a.wildcards # {}
                         THEN ETH_ADDR_ZERO ELSE @]
ZeroWildcardedDl(a) ==
    [a EXCEPT !.dl_src = IF OFPFW_DL_SRC \cap a.wildcards # {}
                         THEN ETH_ADDR_ZERO ELSE @,
              !.dl_dst = IF OFPFW_DL_DST \cap a.wildcards # {}
                         THEN ETH_ADDR_ZERO ELSE @]

normalize_match(mm) ==
    LET wc == mm.wildcards \cap OVSFW_ALL
    IN  ZeroWildcardedDl(
          IF OFPFW_DL_TYPE \cap wc # {} THEN NormalizeNoDlType(mm, wc)
          ELSE IF mm.dl_type = ETH_TYPE_IP THEN NormalizeIp(mm, wc)
          ELSE IF mm.dl_type = ETH_TYPE_ARP THEN NormalizeArp(mm, wc)
          ELSE NormalizeOtherDlType(mm, wc))

\* "%#10x": the eight hexadecimal digits of a 32-bit word, most significant
\* first.
Hex32(w) == [d \in 1 .. 8 |-> ToNat(Shr(w, 4 * (8 - d)) \cap (0 .. 3))]

\* The rendered fields, in the order of the format string.
ofp_match_to_literal_string(match) ==
    << Hex32(match.wildcards), match.in_port, match.dl_src, match.dl_dst,
       match.dl_vlan, match.dl_vlan_pcp, match.dl_type, match.nw_tos,
       match.nw_proto, Hex32(match.nw_src), Hex32(match.nw_dst),
       match.tp_src, match.tp_dst >>

----------------------------------------------------------------------------
(* Actions.  A run of actions is a sequence of 8-byte slots (union         *)
(* ofp_action); slot k of the C array is actions[k + 1].  Of a slot the    *)
(* model keeps the two 16-bit fields every action starts with and the four *)
(* bytes after them, b[1] .. b[4], which hold the port of an output or     *)
(* enqueue action, the VLAN id or priority, or the vendor id.  An action   *)
(* longer than 8 bytes continues in the next slots; a Nicira action's      *)
(* subtype is the first 16-bit field of its second slot.                   *)

OFP_ACTION_ALIGN   == 8

OFPAT_OUTPUT       == 0
OFPAT_SET_VLAN_VID == 1
OFPAT_SET_VLAN_PCP == 2
OFPAT_STRIP_VLAN   == 3
OFPAT_SET_DL_SRC   == 4
OFPAT_SET_DL_DST   == 5
OFPAT_SET_NW_SRC   == 6
OFPAT_SET_NW_DST   == 7
OFPAT_SET_NW_TOS   == 8
OFPAT_SET_TP_SRC   == 9
OFPAT_SET_TP_DST   == 10
OFPAT_ENQUEUE      == 11
OFPAT_VENDOR       == 65535

NXAST_RESUBMIT         == 1
NXAST_SET_TUNNEL       == 2
NXAST_DROP_SPOOFED_ARP == 3
NXAST_SET_QUEUE        == 4
NXAST_POP_QUEUE        == 5
NXAST_REG_MOVE         == 6
NXAST_REG_LOAD         == 7
NXAST_NOTE             == 8

\* NX_VENDOR_ID 0x00002320 in network byte order.
NX_VENDOR_ID_BYTES == <<0, 0, 35, 32>>

SIZEOF_NX_ACTION_REG_MOVE == 24
SIZEOF_NX_ACTION_REG_LOAD == 24

OFPP_IN_PORT    == 65528
OFPP_TABLE      == 65529
OFPP_NORMAL     == 65530
OFPP_FLOOD      == 65531
OFPP_ALL        == 65532
OFPP_CONTROLLER == 65533
OFPP_NONE       == 65535

\* ofp_mkerr(type, code); 0 is success.
ofp_mkerr(type, code) == [type |-> type, code |-> code]
Success == [type |-> "0", code |-> "0"]
Running == [type |-> "running", code |-> "running"]
NULL    == -1

BAD_LEN         == ofp_mkerr("OFPET_BAD_ACTION", "OFPBAC_BAD_LEN")
BAD_OUT_PORT    == ofp_mkerr("OFPET_BAD_ACTION", "OFPBAC_BAD_OUT_PORT")
BAD_ARGUMENT    == ofp_mkerr("OFPET_BAD_ACTION", "OFPBAC_BAD_ARGUMENT")
BAD_VENDOR      == ofp_mkerr("OFPET_BAD_ACTION", "OFPBAC_BAD_VENDOR")
BAD_VENDOR_TYPE == ofp_mkerr("OFPET_BAD_ACTION", "OFPBAC_BAD_VENDOR_TYPE")
BAD_TYPE        == ofp_mkerr("OFPET_BAD_ACTION", "OFPBAC_BAD_TYPE")

\* ntohs() of the 16-bit field in bytes 4 and 5 of the slot.
Field16(a) == a.b[1] * 256 + a.b[2]

\* The same two bytes read as a uint16_t without ntohs(), on a little-endian
\* (le) or big-endian host.
HostField16(a, le) == IF le THEN a.b[1] + 256 * a.b[2] ELSE Field16(a)

check_action_exact_len(len, required_len) ==
    IF len # required_len THEN BAD_LEN ELSE Success

check_output_port_OffByOne(port, maxports) ==
    IF port \in {OFPP_IN_PORT, OFPP_TABLE, OFPP_NORMAL, OFPP_FLOOD, OFPP_ALL,
                 OFPP_CONTROLLER, OFPP_LOCAL}
    THEN Success
    ELSE IF port <= maxports THEN Success ELSE BAD_OUT_PORT
check_output_port(port, maxports) ==
    IF port \in {OFPP_IN_PORT, OFPP_TABLE, OFPP_NORMAL, OFPP_FLOOD, OFPP_ALL,
                 OFPP_CONTROLLER, OFPP_LOCAL}
    THEN Success
    ELSE IF port < maxports THEN Success ELSE BAD_OUT_PORT

check_enqueue_action(a, len, maxports) ==
    IF check_action_exact_len(len, 16) # Success
    THEN check_action_exact_len(len, 16)
    ELSE IF Field16(a) < maxports \/ Field16(a) = OFPP_IN_PORT THEN Success
    ELSE BAD_OUT_PORT

\* subtype is ntohs(nah->subtype), read from the action's second slot; nxm
\* is what nxm_check_reg_move() or nxm_check_reg_load() (nx-match.c) answers.
check_nicira_action(subtype, len, nxm) ==
    IF len < 16 THEN BAD_LEN
    ELSE IF subtype \in {NXAST_RESUBMIT, NXAST_SET_TUNNEL,
                         NXAST_DROP_SPOOFED_ARP, NXAST_SET_QUEUE,
                         NXAST_POP_QUEUE}
    THEN check_action_exact_len(len, 16)
    ELSE IF subtype = NXAST_REG_MOVE THEN
        IF check_action_exact_len(len, SIZEOF_NX_ACTION_REG_MOVE) # Success
        THEN check_action_exact_len(len, SIZEOF_NX_ACTION_REG_MOVE)
        ELSE nxm
    ELSE IF subtype = NXAST_REG_LOAD THEN
        IF check_action_exact_len(len, SIZEOF_NX_ACTION_REG_LOAD) # Success
        THEN check_action_exact_len(len, SIZEOF_NX_ACTION_REG_LOAD)
        ELSE nxm
    ELSE IF subtype = NXAST_NOTE THEN Success
    ELSE BAD_VENDOR_TYPE

\* a is the action's first slot and subtype the first 16-bit field of the
\* slot after it (read only by check_nicira_action(), when len >= 16).
\* le tells whether the host is little-endian.
check_action(a, subtype, len, maxports, nxm, le) ==
    CASE a.type = OFPAT_OUTPUT ->
           IF check_action_exact_len(len, 8) # Success
           THEN check_action_exact_len(len, 8)
           ELSE check_output_port(Field16(a), maxports)
      [] a.type = OFPAT_SET_VLAN_VID ->
           IF check_action_exact_len(len, 8) # Success
           THEN check_action_exact_len(len, 8)
           ELSE IF Field16(a) > 4095 THEN BAD_ARGUMENT  \* & ~htons(0xfff)
           ELSE Success
      [] a.type = OFPAT_SET_VLAN_PCP ->
           IF check_action_exact_len(len, 8) # Success
           THEN check_action_exact_len(len, 8)
           ELSE IF HostField16(a, le) > 7 THEN BAD_ARGUMENT     \* & ~7
           ELSE Success
      [] a.type \in {OFPAT_STRIP_VLAN, OFPAT_SET_NW_SRC, OFPAT_SET_NW_DST,
                     OFPAT_SET_NW_TOS, OFPAT_SET_TP_SRC, OFPAT_SET_TP_DST} ->
           check_action_exact_len(len, 8)
      [] a.type \in {OFPAT_SET_DL_SRC, OFPAT_SET_DL_DST} ->
           check_action_exact_len(len, 16)
      [] a.type = OFPAT_VENDOR ->
           IF a.b = NX_VENDOR_ID_BYTES
           THEN check_nicira_action(subtype, len, nxm)
           ELSE BAD_VENDOR
      [] a.type = OFPAT_ENQUEUE -> check_enqueue_action(a, len, maxports)
      [] OTHER -> BAD_TYPE

\* The framing checks of validate_actions(): lines 810-822.
FramingError_NoZeroCheck(len, slots_left) ==
    IF len \div OFP_ACTION_ALIGN > slots_left THEN BAD_LEN
    ELSE IF len % OFP_ACTION_ALIGN # 0 THEN BAD_LEN
    ELSE Success
FramingError(len, slots_left) ==
    IF len \div OFP_ACTION_ALIGN > slots_left THEN BAD_LEN
    ELSE IF len = 0 THEN BAD_LEN
    ELSE IF len % OFP_ACTION_ALIGN # 0 THEN BAD_LEN
    ELSE Success

----------------------------------------------------------------------------
(* The wire matches the caller may supply.  A match is one of the base     *)
(* matches (every field set, the wildcard word all zeros or all ones, one  *)
(* of the Ethernet types and IP protocols that normalize_match() tells     *)
(* apart) changed in at most MaxDeviations places: a wildcard bit flipped  *)
(* or a field set to another value.                                        *)

MaxDeviations == 2

ETH_TYPE_OTHER == 35020          \* LLDP: neither IP nor ARP
IPPROTO_GRE    == 47             \* neither TCP, UDP nor ICMP

DlTypes       == {ETH_TYPE_IP, ETH_TYPE_ARP, ETH_TYPE_OTHER}
NwProtos      == {IPPROTO_TCP, IPPROTO_GRE}
WildcardBases == {{}, Word32}

\* The flags, bits 0, 3 and 5 of the source count (1, 8, 32), bit 5 of the
\* destination count, the tunnel bit and a reserved bit.
FlipBits == (0 .. 7) \cup {8, 11, 13, 19, 20, 21, 25, 30}

Options ==
    [f : {"bit"}, k : FlipBits]
    \cup [f : {"in_port"}, k : {0, OFPP_LOCAL}]
    \cup [f : {"dl_vlan", "dl_vlan_pcp", "dl_src", "nw_tos", "nw_src",
               "tp_src"}, k : {0}]

RECURSIVE SubsetsUpTo(_, _)
SubsetsUpTo(S, k) ==
    IF k = 0 THEN {{}}
    ELSE LET prev == SubsetsUpTo(S, k - 1)
         IN  prev \cup { d \cup {x} : d \in prev, x \in S }

Deviations ==
    { D \in SubsetsUpTo(Options, MaxDeviations) :
        Cardinality({ d \in D : d.f = "in_port" }) <= 1 }

BaseMatch(wc, dl_type, nw_proto) ==
    [ wildcards   |-> wc,
      in_port     |-> 1,
      dl_vlan     |-> 5,
      dl_vlan_pcp |-> 3,
      dl_src      |-> <<0, 35, 32, 0, 0, 1>>,
      dl_dst      |-> <<1, 128, 194, 0, 0, 14>>,
      dl_type     |-> dl_type,
      nw_src      |-> (0 .. 8) \cup {25, 27},           \* 10.0.1.255
      nw_dst      |-> {0, 1, 9, 25, 27},                \* 10.0.2.3
      nw_tos      |-> 69,
      nw_proto    |-> nw_proto,
      tp_src      |-> 80,
      tp_dst      |-> 443 ]

Has(D, f) == \E d \in D : d.f = f

Deviate(b, D) ==
    LET flip == { d.k : d \in { x \in D : x.f = "bit" } }
    IN  [ wildcards   |-> (b.wildcards \ flip) \cup (flip \ b.wildcards),
          in_port     |-> IF Has(D, "in_port")
                          THEN (CHOOSE d \in D : d.f = "in_port").k
                          ELSE b.in_port,
          dl_vlan     |-> IF Has(D, "dl_vlan") THEN 0 ELSE b.dl_vlan,
          dl_vlan_pcp |-> IF Has(D, "dl_vlan_pcp") THEN 0 ELSE b.dl_vlan_pcp,
          dl_src      |-> IF Has(D, "dl_src") THEN ETH_ADDR_ZERO ELSE b.dl_src,
          dl_dst      |-> IF Has(D, "dl_dst") THEN ETH_ADDR_ZERO ELSE b.dl_dst,
          dl_type     |-> b.dl_type,
          nw_src      |-> IF Has(D, "nw_src") THEN {} ELSE b.nw_src,
          nw_dst      |-> IF Has(D, "nw_dst") THEN {} ELSE b.nw_dst,
          nw_tos      |-> IF Has(D, "nw_tos") THEN 0 ELSE b.nw_tos,
          nw_proto    |-> b.nw_proto,
          tp_src      |-> IF Has(D, "tp_src") THEN 0 ELSE b.tp_src,
          tp_dst      |-> IF Has(D, "tp_dst") THEN 0 ELSE b.tp_dst ]

Matches ==
    { Deviate(BaseMatch(wc, t, p), D) :
        wc \in WildcardBases, t \in DlTypes, p \in NwProtos, D \in Deviations }

\* A second match: the first with other values in the fields P names.  A
\* field's other value is its value plus one; an address has bits 0 and 3
\* flipped; a wildcard count has its bit 3 flipped (32 <-> 40, 0 <-> 8).
\* P is one field, or every field whose wildcard bit is set in the first
\* match (with or without in_port, dl_vlan, dl_vlan_pcp and the counts of
\* 32 and more), or every field.
MatchFields == {"in_port", "dl_vlan", "dl_vlan_pcp", "dl_src", "dl_dst",
                "dl_type", "nw_src", "nw_dst", "nw_tos", "nw_proto",
                "tp_src", "tp_dst", "src_count", "dst_count"}

FieldBit(f) ==
    CASE f = "in_port" -> {0}       [] f = "dl_vlan" -> {1}
      [] f = "dl_src" -> {2}        [] f = "dl_dst" -> {3}
      [] f = "dl_type" -> {4}       [] f = "nw_proto" -> {5}
      [] f = "tp_src" -> {6}        [] f = "tp_dst" -> {7}
      [] f = "nw_src" -> {10, 11, 12, 13}    \* a count of 4 or more
      [] f = "nw_dst" -> {16, 17, 18, 19}
      [] f = "src_count" -> {13}             \* a count of 32 or more
      [] f = "dst_count" -> {19}
      [] f = "dl_vlan_pcp" -> {20}  [] f = "nw_tos" -> {21}

WildcardedFields(x) == { f \in MatchFields : FieldBit(f) \cap x.wildcards # {} }

Perturbations(x) ==
    { {f} : f \in MatchFields }
    \cup { WildcardedFields(x)
             \ {"in_port", "dl_vlan", "dl_vlan_pcp", "src_count", "dst_count"},
           WildcardedFields(x),
           MatchFields }

Xor(a, b) == (a \ b) \cup (b \ a)

Perturb(x, P) ==
    [ wildcards   |-> Xor(x.wildcards,
                          (IF "src_count" \in P THEN {11} ELSE {})
                          \cup (IF "dst_count" \in P THEN {17} ELSE {})),
      in_port     |-> IF "in_port" \in P THEN x.in_port + 1 ELSE x.in_port,
      dl_vlan     |-> IF "dl_vlan" \in P THEN x.dl_vlan + 1 ELSE x.dl_vlan,
      dl_vlan_pcp |-> IF "dl_vlan_pcp" \in P THEN x.dl_vlan_pcp + 1
                      ELSE x.dl_vlan_pcp,
      dl_src      |-> IF "dl_src" \in P
                      THEN [x.dl_src EXCEPT ![6] = @ + 1] ELSE x.dl_src,
      dl_dst      |-> IF "dl_dst" \in P
                      THEN [x.dl_dst EXCEPT ![6] = @ + 1] ELSE x.dl_dst,
      dl_type     |-> IF "dl_type" \in P THEN x.dl_type + 1 ELSE x.dl_type,
      nw_src      |-> IF "nw_src" \in P THEN Xor(x.nw_src, {0, 3})
                      ELSE x.nw_src,
      nw_dst      |-> IF "nw_dst" \in P THEN Xor(x.nw_dst, {0, 3})
                      ELSE x.nw_dst,
      nw_tos      |-> IF "nw_tos" \in P THEN x.nw_tos + 4 ELSE x.nw_tos,
      nw_proto    |-> IF "nw_proto" \in P THEN x.nw_proto + 1
                      ELSE x.nw_proto,
      tp_src      |-> IF "tp_src" \in P THEN x.tp_src + 1 ELSE x.tp_src,
      tp_dst      |-> IF "tp_dst" \in P THEN x.tp_dst + 1 ELSE x.tp_dst ]

\* The other arguments of ofputil_cls_rule_from_match().
Priorities  == {0, 32768}
FlowFormats == {NXFF_OPENFLOW10, NXFF_TUN_ID_FROM_COOKIE}
Cookies     == { {0, 33, 40}, {5, 63} }    \* upper halves 0x102, 0x80000000

\* Values a variable holds before the code has written it.
ZeroMatch == [ wildcards |-> {}, in_port |-> 0, dl_vlan |-> 0,
               dl_vlan_pcp |-> 0, dl_src |-> ETH_ADDR_ZERO,
               dl_dst |-> ETH_ADDR_ZERO, dl_type |-> 0, nw_src |-> {},
               nw_dst |-> {}, nw_tos |-> 0, nw_proto |-> 0, tp_src |-> 0,
               tp_dst |-> 0 ]
NoArgs    == [ priority |-> 0, flow_format |-> NXFF_OPENFLOW10,
               cookie |-> {} ]
NoRule    == [ priority |-> 0,
               wc |-> [wildcards |-> {}, nw_src_mask |-> {},
                       nw_dst_mask |-> {}],
               flow |-> [ tun_id |-> {}, nw_src |-> {}, nw_dst |-> {},
                          in_port |-> 0, dl_vlan |-> 0, dl_vlan_pcp |-> 0,
                          dl_type |-> 0, tp_src |-> 0, tp_dst |-> 0,
                          dl_src |-> ETH_ADDR_ZERO, dl_dst |-> ETH_ADDR_ZERO,
                          nw_tos |-> 0, nw_proto |-> 0 ] ]
NoIter    == [pos |-> 0, end |-> 0]

ActionsIdle ==
    /\ actions = <<>> /\ max_ports = 0 /\ little_endian = TRUE
    /\ i = 0 /\ error = Running
    /\ visited = <<>> /\ dispatched = {} /\ inspected = {}
    /\ iter = NoIter /\ yielded = <<>> /\ last = NULL

MatchIdle ==
    /\ m0 = ZeroMatch /\ m = ZeroMatch /\ normalized = FALSE
    /\ n0 = ZeroMatch /\ n = ZeroMatch
    /\ args = NoArgs /\ rule = NoRule /\ out = ZeroMatch

StatsIdle ==
    /\ osr = [length |-> 0, lens |-> <<>>]
    /\ fs_iter = NoIter /\ fs_ret = NULL /\ fs_yielded = <<>>
    /\ fs_read = FALSE /\ fs_nulls = 0 /\ fs_null_pos = 0

NoReq == [fn |-> "none", len |-> 0, xid |-> 0, port |-> 0, size |-> 0,
          err |-> "none"]
NoBuf == [type |-> "none", length |-> 0, xid |-> 0, total_len |-> 0,
          segs |-> <<>>]

MsgIdle == req = NoReq /\ buf = NoBuf /\ next_xid = 1 /\ n_built = 0

\* The number of threads that call alloc_xid().
MaxThreads == 2

Threads == 1 .. MaxThreads

XidIdle ==
    /\ xid_pc = [t \in Threads |-> "idle"]
    /\ xid_reg = [t \in Threads |-> 0]
    /\ issued = <<>>

NoPull == [actions_len |-> 0, ret |-> Running, actionsp |-> NULL,
           n_actionsp |-> 0, data |-> 0, size |-> 0]

PullIdle == pull_b = [data |-> 0, size |-> 0] /\ pulled = NoPull /\ n_pulls = 0

NetmaskIdle == nm_wcbits = 0 /\ nm_mask = <<>> /\ nm_back = NULL

AuxIdle == XidIdle /\ PullIdle /\ NetmaskIdle

RestIdle == StatsIdle /\ MsgIdle /\ AuxIdle

----------------------------------------------------------------------------
(* The caller of the match functions.                                      *)

InitMatch ==
    /\ pc = "match"
    /\ m0 \in Matches
    /\ m = m0
    /\ normalized = FALSE
    /\ n0 = ZeroMatch /\ n = ZeroMatch
    /\ args = NoArgs /\ rule = NoRule /\ out = ZeroMatch
    /\ ActionsIdle
    /\ RestIdle

\* normalize_match(&m)
NormalizeMatch ==
    /\ pc = "match"
    /\ m' = normalize_match(m)
    /\ normalized' = TRUE
    /\ UNCHANGED <<pc, m0, n0, n, args, rule, out>>
    /\ UNCHANGED <<actionVars, restVars>>

\* ofputil_cls_rule_from_match(&m, priority, flow_format, cookie, &rule)
ClsRuleFromMatch ==
    /\ pc = "match"
    /\ \E priority \in Priorities, flow_format \in FlowFormats,
          cookie \in Cookies :
          /\ args' = [priority |-> priority, flow_format |-> flow_format,
                      cookie |-> cookie]
          /\ rule' = ofputil_cls_rule_from_match(m, priority, flow_format,
                                                 cookie)
    /\ pc' = "rule"
    /\ UNCHANGED <<m0, m, normalized, n0, n, out>>
    /\ UNCHANGED <<actionVars, restVars>>

\* ofputil_cls_rule_to_match(&rule, flow_format, &out), with the flow format
\* the rule was built with.  The assertion of ofputil_netmask_to_wcbits()
\* aborts the program.
ClsRuleToMatch ==
    /\ pc = "rule"
    /\ IF ip_is_cidr(rule.wc.nw_src_mask) /\ ip_is_cidr(rule.wc.nw_dst_mask)
       THEN /\ out' = ofputil_cls_rule_to_match(rule, args.flow_format)
            /\ pc' = "out"
       ELSE /\ out' = out
            /\ pc' = "abort"
    /\ UNCHANGED <<m0, m, normalized, n0, n, args, rule>>
    /\ UNCHANGED <<actionVars, restVars>>

\* The caller takes a second match, n0, that differs from m0 in the fields
\* named by P, and normalizes it too: normalize_match(&n).
NormalizeSecond ==
    /\ pc = "match"
    /\ normalized
    /\ \E P \in Perturbations(m0) :
          /\ n0' = Perturb(m0, P)
          /\ n' = normalize_match(Perturb(m0, P))
    /\ pc' = "pair"
    /\ UNCHANGED <<m0, m, normalized, args, rule, out>>
    /\ UNCHANGED <<actionVars, restVars>>

NextMatch ==
    NormalizeMatch \/ ClsRuleFromMatch \/ ClsRuleToMatch \/ NormalizeSecond

SpecMatch == InitMatch /\ [][NextMatch]_vars

----------------------------------------------------------------------------
(* The caller of validate_actions() and of the actions iterator.           *)

MaxSlots == 3

Slot(type, len, b) == [type |-> type, len |-> len, b |-> b]
PortBytes(port) == <<port \div 256, port % 256, 0, 0>>

\* An action type that union ofp_action does not define.
OFPAT_UNKNOWN == 12

\* The slots of the runs that are walked: four action types (one of them
\* unknown) with every kind of declared length (0, right, misaligned, too
\* long for the type, too long for the run), bytes 4-7 holding the Nicira
\* vendor id (as a port: port 0); two slots whose type reads as the subtype
\* NXAST_NOTE or NXAST_REG_MOVE after a vendor header; an output to
\* OFPP_NONE.
WalkTypes == {OFPAT_OUTPUT, OFPAT_SET_DL_SRC, OFPAT_VENDOR, OFPAT_UNKNOWN}
WalkLens(t) ==
    CASE t = OFPAT_OUTPUT     -> {0, 8, 12, 32}
      [] t = OFPAT_SET_DL_SRC -> {8, 16, 32}
      [] t = OFPAT_VENDOR     -> {8, 16, 24, 32}
      [] t = OFPAT_UNKNOWN    -> {0, 8, 12, 32}
WalkSlots ==
    UNION { { Slot(t, l, NX_VENDOR_ID_BYTES) : l \in WalkLens(t) } :
            t \in WalkTypes }
    \cup { Slot(OFPAT_SET_NW_TOS, 8, NX_VENDOR_ID_BYTES),
           Slot(OFPAT_SET_NW_SRC, 8, NX_VENDOR_ID_BYTES),
           Slot(OFPAT_OUTPUT, 8, PortBytes(OFPP_NONE)) }

RECURSIVE Runs(_, _)
Runs(S, k) ==
    IF k = 0 THEN {<<>>}
    ELSE LET prev == Runs(S, k - 1)
         IN  prev \cup { Append(r, x) : r \in { q \in prev : Len(q) = k - 1 },
                                        x \in S }

\* One output action, with every reserved port, ports around them and
\* around max_ports.
OutputPorts  == {0, 3, 4, 5, 65279, 65280, 65527, OFPP_IN_PORT, OFPP_TABLE,
                 OFPP_NORMAL, OFPP_FLOOD, OFPP_ALL, OFPP_CONTROLLER,
                 OFPP_LOCAL, OFPP_NONE}
MaxPortsSet  == {0, 4, 65280, 65535}
OutputRuns   == { <<Slot(OFPAT_OUTPUT, l, PortBytes(p))>> :
                    l \in {8, 12}, p \in OutputPorts }

\* One set-VLAN-id or set-VLAN-priority action.
VlanRuns ==
    { <<Slot(t, 8, <<b1, b2, 0, 0>>)>> :
        t \in {OFPAT_SET_VLAN_VID, OFPAT_SET_VLAN_PCP},
        b1 \in {0, 7, 8, 15, 16}, b2 \in {0, 1, 255} }

InitActions ==
    /\ pc = "validate"
    /\ \/ /\ actions \in Runs(WalkSlots, MaxSlots)
          /\ max_ports = 4
          /\ little_endian = TRUE
       \/ /\ actions \in OutputRuns
          /\ max_ports \in MaxPortsSet
          /\ little_endian = TRUE
       \/ /\ actions \in VlanRuns
          /\ max_ports = 4
          /\ little_endian \in BOOLEAN
    /\ i = 0 /\ error = Running
    /\ visited = <<>> /\ dispatched = {} /\ inspected = {}
    /\ iter = NoIter /\ yielded = <<>> /\ last = NULL
    /\ MatchIdle
    /\ RestIdle

\* What the external nxm_check_reg_move()/nxm_check_reg_load() may answer.
NxmAnswers == {Success, BAD_ARGUMENT}

\* One iteration of the loop of validate_actions(): lines 803-829.
ValidateAction ==
    /\ pc = "validate"
    /\ i < Len(actions)
    /\ LET a          == actions[i + 1]
           len        == a.len
           n_slots    == len \div OFP_ACTION_ALIGN
           slots_left == Len(actions) - i
           \* check_nicira_action() reads the second slot once len >= 16
           second     == a.type = OFPAT_VENDOR /\ a.b = NX_VENDOR_ID_BYTES
                         /\ len >= 16
           subtype    == IF second THEN actions[i + 2].type ELSE 0
       IN  IF FramingError(len, slots_left) # Success
           THEN /\ error' = FramingError(len, slots_left)
                /\ pc' = "validated"
                /\ inspected' = inspected \cup {i}
                /\ UNCHANGED <<i, visited, dispatched>>
           ELSE \E nxm \in NxmAnswers :
                LET e == check_action(a, subtype, len, max_ports, nxm,
                                      little_endian)
                IN  /\ dispatched' = dispatched \cup {i}
                    /\ inspected' = inspected \cup {i}
                                    \cup (IF second THEN {i + 1} ELSE {})
                    /\ IF e # Success
                       THEN /\ error' = e
                            /\ pc' = "validated"
                            /\ UNCHANGED <<i, visited>>
                       ELSE /\ i' = i + n_slots
                            /\ visited' = Append(visited, i)
                            /\ UNCHANGED <<pc, error>>
    /\ UNCHANGED <<actions, max_ports, little_endian, iter, yielded, last>>
    /\ UNCHANGED <<matchVars, restVars>>

\* The loop ends: validate_actions() returns 0.
ValidateReturn ==
    /\ pc = "validate"
    /\ ~(i < Len(actions))
    /\ error' = Success
    /\ pc' = "validated"
    /\ UNCHANGED <<actions, max_ports, little_endian, i, visited, dispatched,
                   inspected, iter, yielded, last>>
    /\ UNCHANGED <<matchVars, restVars>>

actions_next_OneSlot(it) ==
    IF it.pos # it.end
    THEN [iter |-> [it EXCEPT !.pos = @ + 1], ret |-> it.pos]
    ELSE [iter |-> it, ret |-> NULL]

\* actions_next(): the new iterator and the return value (a slot index or
\* NULL).  A position outside the run is a read outside the array.
actions_next(it) ==
    IF it.pos # it.end
    THEN [iter |-> [it EXCEPT !.pos = @ + actions[it.pos + 1].len
                                           \div OFP_ACTION_ALIGN],
          ret  |-> it.pos]
    ELSE [iter |-> it, ret |-> NULL]

\* actions_first(&iter, actions, n_actions), on a run validate_actions()
\* accepted.
ActionsFirst ==
    /\ pc = "validated"
    /\ error = Success
    /\ LET r == actions_next([pos |-> 0, end |-> Len(actions)])
       IN  /\ iter' = r.iter
           /\ last' = r.ret
           /\ yielded' = IF r.ret # NULL THEN <<r.ret>> ELSE <<>>
           /\ pc' = IF r.ret # NULL THEN "iterate" ELSE "iterated"
    /\ UNCHANGED <<actions, max_ports, little_endian, i, error, visited,
                   dispatched, inspected>>
    /\ UNCHANGED <<matchVars, restVars>>

\* actions_next(&iter), called until it returns NULL.
ActionsNext ==
    /\ pc = "iterate"
    /\ IF iter.pos < Len(actions) \/ iter.pos = iter.end
       THEN LET r == actions_next(iter)
            IN  /\ iter' = r.iter
                /\ last' = r.ret
                /\ yielded' = IF r.ret # NULL THEN Append(yielded, r.ret)
                              ELSE yielded
                /\ pc' = IF r.ret # NULL THEN "iterate" ELSE "iterated"
       ELSE /\ pc' = "overread"
            /\ UNCHANGED <<iter, last, yielded>>
    /\ UNCHANGED <<actions, max_ports, little_endian, i, error, visited,
                   dispatched, inspected>>
    /\ UNCHANGED <<matchVars, restVars>>

NextActions == ValidateAction \/ ValidateReturn \/ ActionsFirst \/ ActionsNext

SpecActions == InitActions /\ [][NextActions]_vars

\* The caller keeps calling while there is something to call.
SpecActionsFair == SpecActions /\ WF_vars(NextActions)

----------------------------------------------------------------------------
(* The flow-stats iterator: flow_stats_first(), flow_stats_next().         *)

MaxRecords == 3

\* How many more calls the caller makes after the first NULL.
MaxNullCalls == 2

SIZEOF_OFP_FLOW_STATS  == 88    \* sizeof(struct ofp_flow_stats)
OFFSETOF_STATS_BODY    == 12    \* offsetof(struct ofp_stats_reply, body)
SIZEOF_OFP_ACTION_HDR  == 8     \* sizeof fs->actions[0]

\* The length fields a record may declare: 0, below the minimum, the
\* minimum, misaligned, and the minimum plus one or two actions.
RecordLens == {0, 80, 88, 92, 96, 104}

\* What may lie after the body's last record: nothing, 3 bytes, one byte
\* less than a record.
Leftovers == {0, 3, 87}

RECURSIVE SumSeq(_)
SumSeq(q) == IF q = <<>> THEN 0 ELSE Head(q) + SumSeq(Tail(q))

\* A stats reply is its declared header length and the length fields the
\* iterator finds one after the other: the first at the body start, each
\* next one where the record before it ends.  The body holds the records
\* and a leftover, or is cut 8 bytes short of its last record.
StatsReplies ==
    { [length |-> OFFSETOF_STATS_BODY + SumSeq(q) + lo, lens |-> q] :
        q \in Runs(RecordLens, MaxRecords), lo \in Leftovers }
    \cup { [length |-> OFFSETOF_STATS_BODY + SumSeq(q)
                       - SIZEOF_OFP_ACTION_HDR + lo,
            lens |-> q] :
             q \in { r \in Runs(RecordLens, MaxRecords) :
                       r # <<>> /\ r[Len(r)] >= SIZEOF_OFP_FLOW_STATS },
             lo \in {0, 3} }

\* Replies whose header declares less than the offset of the body.
ShortReplies == { [length |-> l, lens |-> <<>>] : l \in {0, 8, 11} }

\* bytes_left < sizeof *fs and length > bytes_left compare a ptrdiff_t with
\* a size_t: the ptrdiff_t is converted to size_t, so a negative bytes_left
\* counts as a value above every 16-bit length and every sizeof.
AsSizeTLess(bytes_left, size)    == bytes_left >= 0 /\ bytes_left < size
AsSizeTGreater(length, bytes_left) == bytes_left >= 0 /\ length > bytes_left

\* flow_stats_next() on iterator it, length being what ntohs(fs->length)
\* reads at it.pos if it is read: the new iterator, the return value (the
\* record's offset or NULL) and whether the length field was read.
flow_stats_next_NoAlign(it, length) ==
    LET bytes_left == it.end - it.pos
    IN  IF AsSizeTLess(bytes_left, SIZEOF_OFP_FLOW_STATS)
        THEN [iter |-> it, ret |-> NULL, read |-> FALSE]
        ELSE IF \/ length < SIZEOF_OFP_FLOW_STATS
                \/ AsSizeTGreater(length, bytes_left)
        THEN [iter |-> it, ret |-> NULL, read |-> TRUE]
        ELSE [iter |-> [it EXCEPT !.pos = @ + length], ret |-> it.pos,
              read |-> TRUE]
flow_stats_next(it, length) ==
    LET bytes_left == it.end - it.pos
    IN  IF AsSizeTLess(bytes_left, SIZEOF_OFP_FLOW_STATS)
        THEN [iter |-> it, ret |-> NULL, read |-> FALSE]
        ELSE IF \/ length < SIZEOF_OFP_FLOW_STATS
                \/ AsSizeTGreater(length, bytes_left)
                \/ (length - SIZEOF_OFP_FLOW_STATS) % SIZEOF_OFP_ACTION_HDR # 0
        THEN [iter |-> it, ret |-> NULL, read |-> TRUE]
        ELSE [iter |-> [it EXCEPT !.pos = @ + length], ret |-> it.pos,
              read |-> TRUE]

\* The values ntohs(fs->length) may read at the cursor: the next length
\* field of the reply, or, when the cursor is outside the declared message,
\* whatever the memory there holds.
LengthsAt(it) ==
    IF it.end - it.pos < 0 THEN RecordLens
    ELSE IF Len(fs_yielded) < Len(osr.lens)
         THEN {osr.lens[Len(fs_yielded) + 1]}
         ELSE {0}

InitStats ==
    /\ pc = "stats"
    /\ osr \in StatsReplies \cup ShortReplies
    /\ fs_iter = NoIter /\ fs_ret = NULL /\ fs_yielded = <<>>
    /\ fs_read = FALSE /\ fs_nulls = 0 /\ fs_null_pos = 0
    /\ MatchIdle
    /\ ActionsIdle
    /\ MsgIdle
    /\ AuxIdle

\* The effect of one call that leaves the iterator as r says.
StatsCall(r, length) ==
    /\ fs_iter' = r.iter
    /\ fs_ret' = r.ret
    /\ fs_read' = r.read
    /\ fs_yielded' = IF r.ret # NULL
                     THEN Append(fs_yielded, [pos |-> r.ret, len |-> length])
                     ELSE fs_yielded
    /\ fs_nulls' = IF r.ret = NULL THEN fs_nulls + 1 ELSE fs_nulls
    /\ fs_null_pos' = IF r.ret = NULL /\ fs_nulls = 0 THEN r.iter.pos
                      ELSE fs_null_pos
    /\ pc' = "stats_iter"
    /\ UNCHANGED osr
    /\ UNCHANGED <<matchVars, actionVars, msgVars, auxVars>>

\* flow_stats_first(&iter, osr)
FlowStatsFirst ==
    /\ pc = "stats"
    /\ LET it == [pos |-> 0, end |-> osr.length - OFFSETOF_STATS_BODY]
       IN  \E length \in LengthsAt(it) :
               StatsCall(flow_stats_next(it, length), length)

\* flow_stats_next(&iter): the caller goes on until NULL, and MaxNullCalls
\* times after that; it gives up after MaxRecords + 1 records.
FlowStatsNext ==
    /\ pc = "stats_iter"
    /\ fs_nulls <= MaxNullCalls
    /\ Len(fs_yielded) <= MaxRecords
    /\ \E length \in LengthsAt(fs_iter) :
           StatsCall(flow_stats_next(fs_iter, length), length)

NextStats == FlowStatsFirst \/ FlowStatsNext

SpecStats == InitStats /\ [][NextStats]_vars

\* The caller keeps calling.
SpecStatsFair == SpecStats /\ WF_vars(NextStats)

----------------------------------------------------------------------------
(* The message builders.  A struct ofpbuf is the header fields of the      *)
(* message it starts with and its contents as a sequence of segments, each *)
(* a kind of bytes and a byte count: buf->size is the sum of the counts.   *)

SIZEOF_OFP_HEADER        == 8
SIZEOF_NICIRA_HEADER     == 16
SIZEOF_OFP_ERROR_MSG     == 12
SIZEOF_NX_VENDOR_ERROR   == 8
SIZEOF_OFP_FLOW_MOD      == 72
SIZEOF_OFP_ACTION_OUTPUT == 8
SIZEOF_OFP_PACKET_OUT    == 16
OFFSETOF_PACKET_IN_DATA  == 18
ECHO_MAX                 == 64      \* make_ofp_error_msg(): if (len > 64)

Seg(what, len) == [what |-> what, len |-> len]

\* Segments of no bytes do not show.
Compact(segs) == SelectSeq(segs, LAMBDA g : g.len # 0)

BufSize(b) == SumSeq([k \in 1 .. Len(b.segs) |-> b.segs[k].len])

\* htons() of a size_t: the low 16 bits.
htons(x) == x % 65536

\* ofpbuf_new(): an empty buffer.
ofpbuf_new == NoBuf

\* ofpbuf_put(), ofpbuf_put_uninit(), ofpbuf_put_zeros(): len more bytes at
\* the tail.
ofpbuf_put(b, what, len) ==
    [b EXCEPT !.segs = Compact(Append(@, Seg(what, len)))]

\* put_openflow_xid(): the header, then zeros; fixed of the zeroed bytes
\* are the fields the builder then writes.
put_openflow_xid(openflow_len, type, xid, fixed, b) ==
    [b EXCEPT !.type = type, !.length = htons(openflow_len), !.xid = xid,
              !.segs = Compact(@ \o <<Seg("header", SIZEOF_OFP_HEADER),
                                      Seg("fixed", fixed),
                                      Seg("zeros", openflow_len
                                            - SIZEOF_OFP_HEADER - fixed)>>)]

\* update_openflow_length()
update_openflow_length(b) == [b EXCEPT !.length = htons(BufSize(b))]

make_openflow_xid(openflow_len, type, xid) ==
    put_openflow_xid(openflow_len, type, xid, 0, ofpbuf_new)

\* make_openflow_xid(..., OFPT_ERROR, ...) followed by the writes of
\* oem->type and oem->code.
make_openflow_xid_fixed(openflow_len, xid, fixed) ==
    put_openflow_xid(openflow_len, "OFPT_ERROR", xid, fixed, ofpbuf_new)

make_nxmsg_xid(openflow_len, xid) ==
    put_openflow_xid(openflow_len, "OFPT_VENDOR", xid,
                     SIZEOF_NICIRA_HEADER - SIZEOF_OFP_HEADER, ofpbuf_new)

\* make_flow_mod(): the header declares the actions, the buffer does not
\* hold them yet.
make_flow_mod(actions_len) ==
    [ofpbuf_put(ofpbuf_put(ofpbuf_new, "header", SIZEOF_OFP_HEADER),
                "fixed", SIZEOF_OFP_FLOW_MOD - SIZEOF_OFP_HEADER)
       EXCEPT !.type = "OFPT_FLOW_MOD",
              !.length = htons(SIZEOF_OFP_FLOW_MOD + actions_len)]

make_add_simple_flow(out_port) ==
    IF out_port # OFPP_NONE
    THEN ofpbuf_put(make_flow_mod(SIZEOF_OFP_ACTION_OUTPUT), "actions",
                    SIZEOF_OFP_ACTION_OUTPUT)
    ELSE make_flow_mod(0)

make_del_flow == make_flow_mod(0)

\* MIN(max_send_len, payload->size): an int against a size_t, so a negative
\* max_send_len compares as a huge unsigned value.
MinIntSizeT(x, y) == IF x >= 0 /\ x < y THEN x ELSE y

make_packet_in_Whole(payload_size, max_send_len) ==
    LET opi == put_openflow_xid(OFFSETOF_PACKET_IN_DATA, "OFPT_PACKET_IN", 0,
                                OFFSETOF_PACKET_IN_DATA - SIZEOF_OFP_HEADER,
                                ofpbuf_new)
        set == [opi EXCEPT !.total_len = htons(payload_size)]
    IN  update_openflow_length(ofpbuf_put(set, "payload", payload_size))
make_packet_in(payload_size, max_send_len) ==
    LET send_len == MinIntSizeT(max_send_len, payload_size)
        opi == put_openflow_xid(OFFSETOF_PACKET_IN_DATA, "OFPT_PACKET_IN", 0,
                                OFFSETOF_PACKET_IN_DATA - SIZEOF_OFP_HEADER,
                                ofpbuf_new)
        set == [opi EXCEPT !.total_len = htons(payload_size)]
    IN  update_openflow_length(ofpbuf_put(set, "payload", send_len))

\* make_packet_out(): packet_size is NULL for no packet.
make_packet_out(packet_size, n_actions) ==
    LET actions_len == n_actions * SIZEOF_OFP_ACTION_HDR
        size == SIZEOF_OFP_PACKET_OUT + actions_len
                + (IF packet_size # NULL THEN packet_size ELSE 0)
        opo  == ofpbuf_put(ofpbuf_put(ofpbuf_new, "header", SIZEOF_OFP_HEADER),
                           "fixed", SIZEOF_OFP_PACKET_OUT - SIZEOF_OFP_HEADER)
        acts == ofpbuf_put([opo EXCEPT !.type = "OFPT_PACKET_OUT",
                                       !.length = htons(size), !.xid = 0],
                           "actions", actions_len)
    IN  IF packet_size # NULL THEN ofpbuf_put(acts, "packet", packet_size)
        ELSE acts

make_unbuffered_packet_out(packet_size) == make_packet_out(packet_size, 1)

make_buffered_packet_out(out_port) ==
    IF out_port # OFPP_NONE THEN make_packet_out(NULL, 1)
    ELSE make_packet_out(NULL, 0)

make_echo_request ==
    [ofpbuf_put(ofpbuf_new, "header", SIZEOF_OFP_HEADER)
       EXCEPT !.type = "OFPT_ECHO_REQUEST", !.length = htons(SIZEOF_OFP_HEADER)]

\* make_echo_reply(rq): a copy of rq with another type.
make_echo_reply(rq_length, rq_xid) ==
    [ofpbuf_put(ofpbuf_put(ofpbuf_new, "header", SIZEOF_OFP_HEADER),
                "rq_body", rq_length - SIZEOF_OFP_HEADER)
       EXCEPT !.type = "OFPT_ECHO_REPLY", !.length = htons(rq_length),
              !.xid = rq_xid]

\* make_ofp_error_msg(error, oh).  err is "core" (an OpenFlow error of
\* vendor OFPUTIL_VENDOR_OPENFLOW), "vendor" (of a vendor in
\* OFPUTIL_VENDORS), "bad_vendor" (of no known vendor) or "errno" (not an
\* OpenFlow error); oh_length is NULL for no oh.  "orig" bytes are the
\* first bytes of oh.  NoBuf stands for a NULL return.
make_ofp_error_msg(err, oh_length, oh_xid) ==
    LET xid == IF oh_length # NULL THEN oh_xid ELSE 0
        len == IF oh_length = NULL THEN 0
               ELSE IF oh_length > ECHO_MAX THEN ECHO_MAX
               ELSE oh_length
        typecode == SIZEOF_OFP_ERROR_MSG - SIZEOF_OFP_HEADER
        msg == IF err = "core"
               THEN make_openflow_xid_fixed(len + SIZEOF_OFP_ERROR_MSG, xid,
                                            typecode)
               ELSE ofpbuf_put(
                        make_openflow_xid_fixed(len + SIZEOF_OFP_ERROR_MSG
                                                  + SIZEOF_NX_VENDOR_ERROR,
                                                xid, typecode),
                        "nve", SIZEOF_NX_VENDOR_ERROR)
    IN  IF err \in {"errno", "bad_vendor"} THEN NoBuf
        ELSE IF len # 0 THEN ofpbuf_put(msg, "orig", len)
        ELSE msg

MaxMessages == 2

Req(fn, len, xid, port, size, err) ==
    [fn |-> fn, len |-> len, xid |-> xid, port |-> port, size |-> size,
     err |-> err]

OpenflowLens == {8, 16, 24, 65535}
PayloadSizes == {0, 1, 60, 64, 1500, 65535, 65536, 70000}
MaxSendLens  == {-1, 0, 1, 64, 128, 65535, 100000}
OhLengths    == {NULL, 8, 63, 64, 65, 100}
Xids         == {0, 7}

InitMsg ==
    /\ pc = "msg"
    /\ req = NoReq /\ buf = NoBuf /\ next_xid = 1 /\ n_built = 0
    /\ MatchIdle
    /\ ActionsIdle
    /\ StatsIdle
    /\ AuxIdle

\* The caller gets b from the call r; xids is how many ids alloc_xid() gave.
Built(r, b, xids) ==
    /\ n_built < MaxMessages
    /\ req' = r
    /\ buf' = b
    /\ next_xid' = next_xid + xids
    /\ n_built' = n_built + 1
    /\ UNCHANGED pc
    /\ UNCHANGED <<matchVars, actionVars, statsVars, auxVars>>

\* make_openflow(len, type, &buffer): alloc_xid() supplies the id.
MakeOpenflow ==
    /\ pc = "msg"
    /\ \E len \in OpenflowLens :
           Built(Req("make_openflow", len, 0, 0, 0, "none"),
                 make_openflow_xid(len, "OFPT_HELLO", next_xid), 1)

MakeOpenflowXid ==
    /\ pc = "msg"
    /\ \E len \in OpenflowLens, xid \in Xids :
           Built(Req("make_openflow_xid", len, xid, 0, 0, "none"),
                 make_openflow_xid(len, "OFPT_HELLO", xid), 0)

\* make_nxmsg(len, subtype, &buffer)
MakeNxmsg ==
    /\ pc = "msg"
    /\ \E len \in OpenflowLens \ {8} :
           Built(Req("make_nxmsg", len, 0, 0, 0, "none"),
                 make_nxmsg_xid(len, next_xid), 1)

MakeAddSimpleFlow ==
    /\ pc = "msg"
    /\ \E port \in {1, OFPP_NONE} :
           Built(Req("make_add_simple_flow", 0, 0, port, 0, "none"),
                 make_add_simple_flow(port), 0)

MakeDelFlow ==
    /\ pc = "msg"
    /\ Built(Req("make_del_flow", 0, 0, 0, 0, "none"), make_del_flow, 0)

\* make_packet_in(buffer_id, in_port, reason, payload, max_send_len)
MakePacketIn ==
    /\ pc = "msg"
    /\ \E size \in PayloadSizes, max_send_len \in MaxSendLens :
           Built(Req("make_packet_in", max_send_len, 0, 0, size, "none"),
                 make_packet_in(size, max_send_len), 0)

MakePacketOut ==
    /\ pc = "msg"
    /\ \E size \in {NULL, 0, 60, 70000}, n_actions \in 0 .. 2 :
           Built(Req("make_packet_out", n_actions, 0, 0, size, "none"),
                 make_packet_out(size, n_actions), 0)

MakeUnbufferedPacketOut ==
    /\ pc = "msg"
    /\ \E size \in {0, 60, 70000} :
           Built(Req("make_unbuffered_packet_out", 0, 0, 1, size, "none"),
                 make_unbuffered_packet_out(size), 0)

MakeBufferedPacketOut ==
    /\ pc = "msg"
    /\ \E port \in {1, OFPP_NONE} :
           Built(Req("make_buffered_packet_out", 0, 0, port, 0, "none"),
                 make_buffered_packet_out(port), 0)

MakeEchoRequest ==
    /\ pc = "msg"
    /\ Built(Req("make_echo_request", 0, 0, 0, 0, "none"), make_echo_request, 0)

MakeEchoReply ==
    /\ pc = "msg"
    /\ \E len \in {8, 12, 100}, xid \in Xids :
           Built(Req("make_echo_reply", len, xid, 0, 0, "none"),
                 make_echo_reply(len, xid), 0)

MakeOfpErrorMsg ==
    /\ pc = "msg"
    /\ \E err \in {"core", "vendor", "bad_vendor", "errno"},
          len \in OhLengths, xid \in Xids :
           Built(Req("make_ofp_error_msg", len, xid, 0, 0, err),
                 make_ofp_error_msg(err, len, xid), 0)

NextMsg ==
    \/ MakeOpenflow \/ MakeOpenflowXid \/ MakeNxmsg
    \/ MakeAddSimpleFlow \/ MakeDelFlow
    \/ MakePacketIn
    \/ MakePacketOut \/ MakeUnbufferedPacketOut \/ MakeBufferedPacketOut
    \/ MakeEchoRequest \/ MakeEchoReply
    \/ MakeOfpErrorMsg

SpecMsg == InitMsg /\ [][NextMsg]_vars

\* Every caller.
----------------------------------------------------------------------------
(* The transaction-id counter.                                             *)

\* The allocations made in all.  It keeps next_xid far below 2^32, where the
\* uint32_t would wrap.
MaxXids == 4

\* The functions that call alloc_xid().
XidCallers == {"make_openflow", "put_openflow", "make_nxmsg"}

InitXid ==
    /\ pc = "xid"
    /\ MatchIdle
    /\ ActionsIdle
    /\ StatsIdle
    /\ MsgIdle
    /\ AuxIdle

Allocating == {t \in Threads : xid_pc[t] # "idle"}

\* next_xid++ is not atomic: the thread first loads the static ...
AllocXidLoad ==
    /\ pc = "xid"
    /\ Len(issued) + Cardinality(Allocating) < MaxXids
    /\ \E t \in Threads \ Allocating, fn \in XidCallers :
          /\ xid_pc' = [xid_pc EXCEPT ![t] = fn]
          /\ xid_reg' = [xid_reg EXCEPT ![t] = next_xid]
    /\ UNCHANGED <<pc, issued, next_xid, req, buf, n_built>>
    /\ UNCHANGED <<matchVars, actionVars, statsVars, pullVars, netmaskVars>>

\* ... and then stores the value it loaded plus one, and returns the value it
\* loaded.  htonl() is one-to-one; ids are held by their value on the wire.
AllocXidStore ==
    /\ pc = "xid"
    /\ \E t \in Allocating :
          /\ next_xid' = xid_reg[t] + 1
          /\ issued' = Append(issued, [thread |-> t, fn |-> xid_pc[t],
                                       xid |-> xid_reg[t]])
          /\ xid_pc' = [xid_pc EXCEPT ![t] = "idle"]
    /\ UNCHANGED <<pc, xid_reg, req, buf, n_built>>
    /\ UNCHANGED <<matchVars, actionVars, statsVars, pullVars, netmaskVars>>

NextXid == AllocXidLoad \/ AllocXidStore

SpecXid == InitXid /\ [][NextXid]_vars

----------------------------------------------------------------------------
(* ofputil_pull_actions().                                                 *)

MaxPulls == 2

BAD_REQUEST_LEN == ofp_mkerr("OFPET_BAD_REQUEST", "OFPBRC_BAD_LEN")

\* ofpbuf.h: b->size >= size ? ofpbuf_pull(b, size) : NULL, and ofpbuf_pull()
\* returns the old b->data after b->data += size, b->size -= size.
ofpbuf_try_pull(b, size) ==
    IF b.size >= size
    THEN [b |-> [data |-> b.data + size, size |-> b.size - size],
          ret |-> b.data]
    ELSE [b |-> b, ret |-> NULL]

ofputil_pull_actions_NoAlign(b, actions_len) ==
    LET r == ofpbuf_try_pull(b, actions_len)
    IN  IF r.ret = NULL
        THEN [b |-> r.b, ret |-> BAD_REQUEST_LEN, actionsp |-> NULL,
              n_actionsp |-> 0]
        ELSE [b |-> r.b, ret |-> Success, actionsp |-> r.ret,
              n_actionsp |-> actions_len \div OFP_ACTION_ALIGN]

ofputil_pull_actions(b, actions_len) ==
    IF actions_len % OFP_ACTION_ALIGN # 0
    THEN [b |-> b, ret |-> BAD_REQUEST_LEN, actionsp |-> NULL,
          n_actionsp |-> 0]
    ELSE LET r == ofpbuf_try_pull(b, actions_len)
         IN  IF r.ret = NULL
             THEN [b |-> r.b, ret |-> BAD_REQUEST_LEN, actionsp |-> NULL,
                   n_actionsp |-> 0]
             ELSE [b |-> r.b, ret |-> Success, actionsp |-> r.ret,
                   n_actionsp |-> actions_len \div OFP_ACTION_ALIGN]

\* Where the actions start in a received message, the bytes that follow, and
\* the declared lengths of the action run.
PullData   == {8, 16, 72}
PullSizes  == {0, 4, 8, 16, 20, 24, 40}
ActionsLens == {0, 1, 4, 7, 8, 9, 12, 16, 20, 24, 32, 48, 65536}

InitPull ==
    /\ pc = "pull"
    /\ MatchIdle
    /\ ActionsIdle
    /\ StatsIdle
    /\ MsgIdle
    /\ XidIdle
    /\ NetmaskIdle
    /\ pull_b \in [data : PullData, size : PullSizes]
    /\ pulled = NoPull
    /\ n_pulls = 0

OfputilPullActions ==
    /\ pc = "pull"
    /\ n_pulls < MaxPulls
    /\ \E actions_len \in ActionsLens :
          LET r == ofputil_pull_actions(pull_b, actions_len)
          IN  /\ pull_b' = r.b
              /\ pulled' = [actions_len |-> actions_len, ret |-> r.ret,
                            actionsp |-> r.actionsp,
                            n_actionsp |-> r.n_actionsp,
                            data |-> pull_b.data, size |-> pull_b.size]
    /\ n_pulls' = n_pulls + 1
    /\ UNCHANGED <<pc, matchVars, actionVars, statsVars, msgVars, xidVars,
                   netmaskVars>>

NextPull == OfputilPullActions

SpecPull == InitPull /\ [][NextPull]_vars

----------------------------------------------------------------------------
(* The caller of the netmask functions.                                    *)

\* The largest wildcard count tried.
MaxWcbits == 70

InitNetmask ==
    /\ pc = "netmask"
    /\ MatchIdle
    /\ ActionsIdle
    /\ StatsIdle
    /\ MsgIdle
    /\ XidIdle
    /\ PullIdle
    /\ nm_wcbits \in 0 .. MaxWcbits
    /\ nm_mask = <<>>
    /\ nm_back = NULL

\* mask = ofputil_wcbits_to_netmask(n)
WcbitsToNetmask ==
    /\ pc = "netmask"
    /\ nm_mask' = <<ofputil_wcbits_to_netmask(FromNat(nm_wcbits))>>
    /\ pc' = "mask"
    /\ UNCHANGED <<nm_wcbits, nm_back>>
    /\ UNCHANGED <<matchVars, actionVars, statsVars, msgVars, xidVars,
                   pullVars>>

\* ofputil_netmask_to_wcbits(mask), whose first statement is
\* assert(ip_is_cidr(netmask)).
NetmaskToWcbits ==
    /\ pc = "mask"
    /\ IF ip_is_cidr(nm_mask[1])
       THEN /\ nm_back' = ofputil_netmask_to_wcbits(nm_mask[1])
            /\ pc' = "back"
       ELSE /\ nm_back' = nm_back
            /\ pc' = "abort"
    /\ UNCHANGED <<nm_wcbits, nm_mask>>
    /\ UNCHANGED <<matchVars, actionVars, statsVars, msgVars, xidVars,
                   pullVars>>

NextNetmask == WcbitsToNetmask \/ NetmaskToWcbits

SpecNetmask == InitNetmask /\ [][NextNetmask]_vars

----------------------------------------------------------------------------

Init ==
    InitMatch \/ InitActions \/ InitStats \/ InitMsg \/ InitXid \/ InitPull
    \/ InitNetmask
Next ==
    NextMatch \/ NextActions \/ NextStats \/ NextMsg \/ NextXid \/ NextPull
    \/ NextNetmask
Spec == Init /\ [][Next]_vars

----------------------------------------------------------------------------
(* Properties of the match functions, checked under SpecMatch.             *)

SrcCount(w) == ToNat(Shr(w, OFPFW_NW_SRC_SHIFT) \cap (0 .. 5))
DstCount(w) == ToNat(Shr(w, OFPFW_NW_DST_SHIFT) \cap (0 .. 5))
Wild(x, bit) == bit \cap x.wildcards # {}
LegalBits(flow_format) ==
    IF flow_format = NXFF_TUN_ID_FROM_COOKIE THEN (0 .. 21) \cup {25}
    ELSE 0 .. 21

\* The precondition of the round trip: m is a fixed point of
\* normalize_match() and has no wildcard bit outside the mode's legal mask.
RoundTripPre ==
    /\ pc = "out"
    /\ normalize_match(m) = m
    /\ m.wildcards \subseteq LegalBits(args.flow_format)

\* What the round trip needs besides: no wildcard count above 32, zero in a
\* wildcarded dl_vlan and dl_vlan_pcp, and an in_port that the zeroing and
\* the OFPP_LOCAL <-> ODPP_LOCAL translation leave alone.
RoundTripStable(x) ==
    /\ SrcCount(x.wildcards) <= 32
    /\ DstCount(x.wildcards) <= 32
    /\ Wild(x, OFPFW_DL_VLAN) => x.dl_vlan = 0
    /\ Wild(x, OFPFW_DL_VLAN_PCP) => x.dl_vlan_pcp = 0
    /\ IF Wild(x, OFPFW_IN_PORT) THEN x.in_port = OFPP_LOCAL
       ELSE x.in_port # ODPP_LOCAL

\* C1 as stated: for every match m that is a fixed point of
\* normalize_match() with no wildcard bit outside the legal mask of the
\* mode, every priority, cookie and mode, converting m to a rule and back
\* yields m in every field.
C1_RoundTripAsStated == RoundTripPre => out = m

\* C1, amended: the round trip yields m in every field when, besides, both
\* L3 wildcard counts are at most 32, dl_vlan and dl_vlan_pcp hold 0 where
\* they are wildcarded, and in_port is either exact and not 0 (ODPP_LOCAL)
\* or wildcarded and OFPP_LOCAL.
C1_RoundTrip == (RoundTripPre /\ RoundTripStable(m)) => out = m

C1_Witness ==
    /\ RoundTripPre /\ RoundTripStable(m)
    /\ out = m
    /\ m.dl_type = ETH_TYPE_IP
    /\ SrcCount(m.wildcards) = 8
    /\ Wild(m, OFPFW_NW_TOS)
    /\ args.flow_format = NXFF_TUN_ID_FROM_COOKIE

\* C2: normalize_match is idempotent: once a match has been normalized,
\* normalizing it again leaves every field as it is.
C2_Idempotent == (pc = "match" /\ normalized) => normalize_match(m) = m

C2_Witness ==
    /\ pc = "match" /\ normalized
    /\ m # m0
    /\ m.dl_type = ETH_TYPE_IP /\ m.nw_tos # 0 /\ m.nw_tos # m0.nw_tos
    /\ normalize_match(m) = m

\* The legal wildcard bits that were set before normalize_match() and are
\* clear after it.
LostBits == (m0.wildcards \cap OVSFW_ALL) \ m.wildcards

Min32(c) == IF c > 32 THEN 32 ELSE c
FlagBits == (0 .. 7) \cup {20, 21, 25}
Equivalent(a, b) ==
    /\ a.wildcards \cap FlagBits = b.wildcards \cap FlagBits
    /\ Min32(SrcCount(a.wildcards)) = Min32(SrcCount(b.wildcards))
    /\ Min32(DstCount(a.wildcards)) = Min32(DstCount(b.wildcards))
    /\ Wild(a, OFPFW_IN_PORT) \/ a.in_port = b.in_port
    /\ Wild(a, OFPFW_DL_VLAN) \/ a.dl_vlan = b.dl_vlan
    /\ Wild(a, OFPFW_DL_VLAN_PCP) \/ a.dl_vlan_pcp = b.dl_vlan_pcp
    /\ Wild(a, OFPFW_DL_SRC) \/ a.dl_src = b.dl_src
    /\ Wild(a, OFPFW_DL_DST) \/ a.dl_dst = b.dl_dst
    /\ Wild(a, OFPFW_DL_TYPE) \/ a.dl_type = b.dl_type
    /\ Wild(a, OFPFW_NW_PROTO) \/ a.nw_proto = b.nw_proto
    /\ Wild(a, OFPFW_NW_TOS) \/ a.nw_tos = b.nw_tos
    /\ Wild(a, OFPFW_TP_SRC) \/ a.tp_src = b.tp_src
    /\ Wild(a, OFPFW_TP_DST) \/ a.tp_dst = b.tp_dst
    /\ Shr(a.nw_src, Min32(SrcCount(a.wildcards)))
         = Shr(b.nw_src, Min32(SrcCount(a.wildcards)))
    /\ Shr(a.nw_dst, Min32(DstCount(a.wildcards)))
         = Shr(b.nw_dst, Min32(DstCount(a.wildcards)))

\* C4 as stated: two equivalent matches are equal in every field after
\* normalize_match(), and render identically.
C4_CanonicalAsStated ==
    (pc = "pair" /\ Equivalent(m0, n0)) =>
        /\ m = n
        /\ ofp_match_to_literal_string(m) = ofp_match_to_literal_string(n)

\* C4, amended: two equivalent matches that also have the same L3 wildcard
\* counts (not only both 32 or more) and the same in_port, dl_vlan and
\* dl_vlan_pcp (wildcarded or not) are equal in every field after
\* normalize_match(), and render identically.
SameUntouched(a, b) ==
    /\ SrcCount(a.wildcards) = SrcCount(b.wildcards)
    /\ DstCount(a.wildcards) = DstCount(b.wildcards)
    /\ a.in_port = b.in_port
    /\ a.dl_vlan = b.dl_vlan
    /\ a.dl_vlan_pcp = b.dl_vlan_pcp

C4_Canonical ==
    (pc = "pair" /\ Equivalent(m0, n0) /\ SameUntouched(m0, n0)) =>
        /\ m = n
        /\ ofp_match_to_literal_string(m) = ofp_match_to_literal_string(n)

C4_Witness ==
    /\ pc = "pair" /\ Equivalent(m0, n0) /\ SameUntouched(m0, n0)
    /\ m0.dl_src # n0.dl_src
    /\ m0.nw_src # n0.nw_src
    /\ m0.dl_type = ETH_TYPE_IP /\ ~Wild(m0, OFPFW_DL_TYPE)
    /\ ofp_match_to_literal_string(m) = ofp_match_to_literal_string(n)

\* C5: the rule's tunnel id is the upper 32 bits of the cookie only when
\* the mode is tun-id-from-cookie and the match's tunnel-wildcard bit is
\* clear; in every other case, plain OpenFlow 1.0 mode above all, the rule
\* has FWW_TUN_ID set and flow.tun_id 0.
C5_TunnelId ==
    pc = "rule" =>
        IF args.flow_format = NXFF_TUN_ID_FROM_COOKIE
           /\ ~Wild(m, NXFW_TUN_ID)
        THEN /\ rule.flow.tun_id = Shr(args.cookie, 32)
             /\ FWW_TUN_ID \cap rule.wc.wildcards = {}
        ELSE /\ rule.flow.tun_id = {}
             /\ FWW_TUN_ID \subseteq rule.wc.wildcards

\* C6: the rule's priority is 65535 when the match's wildcard word cut to
\* the legal bits of the mode is zero, and the caller's priority otherwise.
C6_Priority ==
    pc = "rule" =>
        rule.priority =
            IF m.wildcards \cap LegalBits(args.flow_format) = {}
            THEN 65535 ELSE args.priority

C6_Witness ==
    /\ pc = "rule"
    /\ m.wildcards # {}
    /\ m.wildcards \cap LegalBits(args.flow_format) = {}
    /\ args.priority = 0
    /\ rule.priority = 65535

\* C7 as stated: a rule built from a match with all wildcard bits set has
\* priority 65535 whatever priority was requested.
C7_AllWildAsStated ==
    (pc = "rule" /\ m.wildcards = Word32) => rule.priority = 65535

\* C7, amended: a rule built from a match with all wildcard bits set has
\* the requested priority (65535 only when that was requested).
C7_AllWild ==
    (pc = "rule" /\ m.wildcards = Word32) => rule.priority = args.priority

C7_Witness ==
    /\ pc = "rule" /\ m.wildcards = Word32
    /\ args.priority = 0 /\ rule.priority = 0

----------------------------------------------------------------------------
(* Properties of validate_actions() and of the actions iterator.           *)

\* The three framing faults of an action declaring length len at slot k of
\* a run of total slots, stated independently of FramingError.
FramingBad(len, k, total) ==
    \/ len = 0
    \/ len % 8 # 0
    \/ len \div 8 > total - k

SlotsOf(k) == actions[k + 1].len \div 8

\* The walk visited the actions in order from slot 0, each starting where
\* the one before it ended.
InOrder(seq, stop) ==
    /\ Len(seq) > 0 => seq[1] = 0
    /\ \A k \in 1..Len(seq) - 1 : seq[k + 1] = seq[k] + SlotsOf(seq[k])
    /\ stop = IF Len(seq) = 0 THEN 0
              ELSE seq[Len(seq)] + SlotsOf(seq[Len(seq)])

\* C8: validate_actions() walks the run in order; every action it passed was
\* well framed; at the first action whose declared length is 0, is not a
\* multiple of 8 or needs more slots than remain it returns
\* OFPET_BAD_ACTION/OFPBAC_BAD_LEN, without having dispatched on that action's
\* type and without having read any later slot.  In particular a 3-slot run
\* whose first action declares length 32 fails with bad-length.
C8_FramingFirst ==
    pc \in {"validate", "validated", "iterate", "iterated", "overread"} =>
        /\ InOrder(visited, i)
        /\ \A k \in 1..Len(visited) :
               ~FramingBad(actions[visited[k] + 1].len, visited[k],
                           Len(actions))
        /\ (pc # "validate" /\ i < Len(actions)
            /\ FramingBad(actions[i + 1].len, i, Len(actions))) =>
               /\ error = BAD_LEN
               /\ i \notin dispatched
               /\ inspected \subseteq 0..i
        /\ (Len(actions) = 3 /\ actions[1].len = 32 /\ pc # "validate") =>
               error = BAD_LEN /\ dispatched = {} /\ inspected = {0}

C8_Witness ==
    /\ pc = "validated"
    /\ Len(actions) = 3
    /\ actions[1].len = 32
    /\ actions[1].type = OFPAT_UNKNOWN
    /\ actions[2].len = 0
    /\ error = BAD_LEN
    /\ dispatched = {}

\* The verdict of check_action() on the action at slot k, whatever the
\* register checks answer.
Passes(k) ==
    LET a   == actions[k + 1]
        sub == IF a.type = OFPAT_VENDOR /\ a.len >= 16
               THEN actions[k + 2].type ELSE 0
    IN  \E nxm \in NxmAnswers :
            check_action(a, sub, a.len, max_ports, nxm, little_endian)
                = Success

IsPrefix(s, t) ==
    /\ Len(s) <= Len(t)
    /\ \A k \in 1..Len(s) : s[k] = t[k]

C9_Accepted == pc # "validate" /\ error = Success

C9_Tiling ==
    C9_Accepted =>
        /\ i = Len(actions)
        /\ InOrder(visited, Len(actions))
        /\ \A k \in 1..Len(visited) : SlotsOf(visited[k]) >= 1
        /\ \A k \in 1..Len(visited) : Passes(visited[k])
        /\ pc # "overread"
        /\ pc \in {"iterate", "iterated"} =>
               /\ iter.end = Len(actions)
               /\ iter.pos <= iter.end
               /\ IsPrefix(yielded, visited)
               /\ InOrder(yielded, iter.pos)
        /\ pc = "iterated" => last = NULL /\ yielded = visited
        /\ pc = "iterate" => last # NULL

\* C9: when validate_actions() returns success, the walk index ends at
\* exactly the number of slots, the visited actions tile the run, each of
\* them passed check_action(); actions_first()/actions_next() on the same run
\* yield exactly the visited actions in order, never move the cursor past the
\* end, and eventually return NULL.
C9_SuccessTiles ==
    /\ []C9_Tiling
    /\ (C9_Accepted ~> (pc = "iterated" /\ last = NULL))

C9_Witness ==
    /\ pc = "iterated"
    /\ error = Success
    /\ Len(actions) = 3
    /\ visited = <<0, 2>>
    /\ yielded = <<0, 2>>
    /\ last = NULL

ReservedPorts == {OFPP_IN_PORT, OFPP_TABLE, OFPP_NORMAL, OFPP_FLOOD, OFPP_ALL,
                  OFPP_CONTROLLER, OFPP_LOCAL}

OneOutput ==
    /\ pc # "validate"
    /\ Len(actions) = 1
    /\ actions[1].type = OFPAT_OUTPUT

\* C10: a single output action of length 8 is accepted exactly when its port
\* is a reserved virtual port (in-port, table, normal, flood, all,
\* controller, local) or is below max_ports; any other port, OFPP_NONE
\* included, fails with OFPET_BAD_ACTION/OFPBAC_BAD_OUT_PORT; with length 12
\* the action fails with OFPBAC_BAD_LEN.
C10_OutputPort ==
    OneOutput =>
        LET port == Field16(actions[1])
            ok   == port \in ReservedPorts \/ port < max_ports
        IN  /\ actions[1].len = 8 =>
                error = IF ok THEN Success ELSE BAD_OUT_PORT
            /\ actions[1].len = 12 => error = BAD_LEN

C10_Witness ==
    /\ OneOutput
    /\ actions[1].len = 8
    /\ Field16(actions[1]) = 5
    /\ max_ports = 4
    /\ error = BAD_OUT_PORT

----------------------------------------------------------------------------
(* Properties of the flow-stats iterator.                                  *)

StatsEnd == osr.length - OFFSETOF_STATS_BODY

\* A record length the iterator must refuse with rem bytes remaining.
BadRecord(len, rem) ==
    \/ len < 88
    \/ len > rem
    \/ (len - 88) % 8 # 0

\* The header declares at least the stats-reply header, and a call was made.
StatsPre == pc = "stats_iter" /\ osr.length >= OFFSETOF_STATS_BODY

C11_Safe ==
    StatsPre =>
        /\ \A k \in 1 .. Len(fs_yielded) :
               LET r == fs_yielded[k]
               IN  /\ r.pos >= 0 /\ r.pos + r.len <= StatsEnd
                   /\ r.len >= 88 /\ (r.len - 88) % 8 = 0
                   /\ r.len = osr.lens[k]
                   /\ r.pos = SumSeq(SubSeq(osr.lens, 1, k - 1))
        /\ fs_iter.end = StatsEnd
        /\ fs_iter.pos <= fs_iter.end
        /\ fs_nulls = 0 => fs_ret # NULL
        /\ fs_nulls >= 1 =>
               /\ fs_ret = NULL
               /\ fs_iter.pos = fs_null_pos
               /\ LET k   == Len(fs_yielded)
                      rem == StatsEnd - fs_null_pos
                  IN  \/ rem < 88
                      \/ k < Len(osr.lens) /\ BadRecord(osr.lens[k + 1], rem)
        /\ (fs_nulls >= 1 /\ Len(osr.lens) = 1
            /\ ~BadRecord(osr.lens[1], osr.lens[1])
            /\ StatsEnd = osr.lens[1]) =>
               fs_yielded = <<[pos |-> 0, len |-> osr.lens[1]]>>

\* C11: on a stats reply whose header declares at least the stats-reply
\* header size, every record flow_stats_first()/flow_stats_next() return
\* lies between the body start and the end, has a length of at least the
\* minimum and a whole number of action slots above it; the cursor never
\* passes the end; NULL comes exactly when fewer bytes than a minimum record
\* remain or the next record's length is too small, too large or
\* misaligned, and eventually comes; after the first NULL every call returns
\* NULL and leaves the cursor where it is; a body of one well-formed record
\* yields that record, then NULL.
C11_FlowStats ==
    /\ []C11_Safe
    /\ ((pc = "stats" /\ osr.length >= OFFSETOF_STATS_BODY) ~> fs_nulls >= 1)

C11_Witness ==
    /\ StatsPre
    /\ osr.lens = <<96, 88>>
    /\ StatsEnd = 187
    /\ Len(fs_yielded) = 2
    /\ fs_iter.pos = 184
    /\ fs_nulls = MaxNullCalls + 1
    /\ fs_ret = NULL

\* C17: whenever fewer bytes than a minimum record lie between the cursor
\* and the end when flow_stats_next() is entered, also when the end lies
\* before the body start, it returns NULL and reads no record.
C17_ShortRemainder ==
    pc = "stats_iter" =>
        LET entered == IF fs_ret # NULL THEN fs_ret ELSE fs_iter.pos
        IN  fs_iter.end - entered < 88 => (fs_ret = NULL /\ ~fs_read)

----------------------------------------------------------------------------
(* Properties of the message builders.                                     *)

Min(a, b) == IF a < b THEN a ELSE b

\* What follows the 8-byte header and the fixed fields of a message.
AfterFixed(b) == SubSeq(b.segs, 3, Len(b.segs))

\* C12: make_ofp_error_msg() with a core-protocol error and an original
\* message of declared length L returns an OFPT_ERROR message with the
\* original's xid whose body, right after the type and code fields, is the
\* first min(L, 64) bytes of the original and nothing else; with no original
\* the xid is 0 and nothing is echoed.
C12_ErrorEcho ==
    (req.fn = "make_ofp_error_msg" /\ req.err = "core") =>
        /\ buf.type = "OFPT_ERROR"
        /\ Len(buf.segs) >= 2
        /\ buf.segs[1] = Seg("header", 8)
        /\ buf.segs[2] = Seg("fixed", 4)
        /\ IF req.len # NULL
           THEN /\ buf.xid = req.xid
                /\ AfterFixed(buf) = <<Seg("orig", Min(req.len, 64))>>
           ELSE /\ buf.xid = 0
                /\ AfterFixed(buf) = <<>>

BuildersOfC13 ==
    {"make_openflow", "make_openflow_xid", "make_nxmsg",
     "make_add_simple_flow", "make_del_flow", "make_packet_in",
     "make_packet_out", "make_unbuffered_packet_out",
     "make_buffered_packet_out", "make_echo_request", "make_echo_reply",
     "make_ofp_error_msg"}

\* C13: every message a builder hands back has a header length field equal
\* to the number of bytes in the buffer, whenever that number fits in 16
\* bits.
C13_LengthIsSize ==
    (req.fn \in BuildersOfC13 /\ buf # NoBuf /\ BufSize(buf) <= 65535) =>
        buf.length = BufSize(buf)

\* The payload bytes a packet-in carries, -2 if it carries anything else.
Carried(b) ==
    IF Len(b.segs) = 2 THEN 0
    ELSE IF Len(b.segs) = 3 /\ b.segs[3].what = "payload" THEN b.segs[3].len
    ELSE -2

PacketInBuilt ==
    /\ req.fn = "make_packet_in"
    /\ Len(buf.segs) >= 2
    /\ buf.segs[1] = Seg("header", 8)
    /\ buf.segs[2] = Seg("fixed", 10)

\* C15 as stated: for every payload size and every max_send_len the
\* packet-in carries exactly min(max_send_len, payload size) payload bytes
\* after the fixed fields and total_len equals the payload size.
C15_PacketInAsStated ==
    req.fn = "make_packet_in" =>
        /\ PacketInBuilt
        /\ Carried(buf) = Min(req.len, req.size)
        /\ buf.total_len = req.size

\* C15, amended: for every payload size and every max_send_len >= 0 the
\* packet-in carries exactly min(max_send_len, payload size) payload bytes
\* after the fixed fields, and the whole payload when max_send_len is
\* negative; total_len equals the payload size whenever that is at most
\* 65535.
C15_PacketIn ==
    req.fn = "make_packet_in" =>
        /\ PacketInBuilt
        /\ Carried(buf) = IF req.len >= 0 THEN Min(req.len, req.size)
                          ELSE req.size
        /\ req.size <= 65535 => buf.total_len = req.size

C15_Witness ==
    /\ PacketInBuilt
    /\ req.size = 1500 /\ req.len = 128
    /\ Carried(buf) = 128
    /\ buf.total_len = 1500
    /\ buf.length = 146

----------------------------------------------------------------------------
(* Properties of the transaction-id counter.                               *)

\* C14: the ids alloc_xid() hands out (to make_openflow, put_openflow and
\* make_nxmsg) start at 1 and go up by one per allocation, and no two
\* allocations receive the same id, also when the allocations of two or
\* more threads interleave at the counter's read and write.
C14_XidsUnique ==
    pc = "xid" =>
        /\ { issued[k].xid : k \in DOMAIN issued } = 1 .. Len(issued)
        /\ \A j, k \in DOMAIN issued : j # k => issued[j].xid # issued[k].xid

----------------------------------------------------------------------------
(* Properties of ofputil_pull_actions().                                   *)

PullRefused ==
    \/ pulled.actions_len % 8 # 0
    \/ pulled.actions_len > pulled.size

\* C16: when actions_len is not a multiple of 8 or exceeds the bytes left
\* in the buffer, ofputil_pull_actions() returns
\* OFPET_BAD_REQUEST/OFPBRC_BAD_LEN, stores NULL and 0 in its outputs and
\* leaves the buffer's data position and size as they were; otherwise it
\* returns 0, takes exactly actions_len bytes off the front of the buffer,
\* returns the old front and sets the slot count to actions_len / 8.
C16_PullActions ==
    (pc = "pull" /\ n_pulls >= 1) =>
        IF PullRefused
        THEN /\ pulled.ret = ofp_mkerr("OFPET_BAD_REQUEST", "OFPBRC_BAD_LEN")
             /\ pulled.actionsp = NULL
             /\ pulled.n_actionsp = 0
             /\ pull_b.data = pulled.data
             /\ pull_b.size = pulled.size
        ELSE /\ pulled.ret = Success
             /\ pull_b.data = pulled.data + pulled.actions_len
             /\ pull_b.size = pulled.size - pulled.actions_len
             /\ pulled.actionsp = pulled.data
             /\ pulled.n_actionsp * 8 = pulled.actions_len

\* A buffer of 24 bytes gives up 16 of them, and the next call, for 16 bytes
\* again, is refused and leaves the remaining 8 where they are.
C16_Witness ==
    /\ pc = "pull" /\ n_pulls = 2
    /\ pulled.actions_len = 16
    /\ pulled.data = 24 /\ pulled.size = 8
    /\ pulled.ret = ofp_mkerr("OFPET_BAD_REQUEST", "OFPBRC_BAD_LEN")
    /\ pulled.actionsp = NULL /\ pulled.n_actionsp = 0
    /\ pull_b = [data |-> 24, size |-> 8]

----------------------------------------------------------------------------
(* Properties of the VLAN actions.                                         *)

OneVlan ==
    /\ pc # "validate"
    /\ Len(actions) = 1
    /\ actions[1].type \in {OFPAT_SET_VLAN_VID, OFPAT_SET_VLAN_PCP}
    /\ actions[1].len = 8

\* C18: a set-VLAN-priority action of length 8 is accepted exactly when its
\* 8-bit priority is at most 7, whatever its padding bytes hold and
\* whatever the host's byte order, and fails with
\* OFPET_BAD_ACTION/OFPBAC_BAD_ARGUMENT otherwise; a set-VLAN-id action of
\* length 8 is accepted exactly when its 16-bit value is at most 4095.
C18_VlanArguments ==
    OneVlan =>
        LET a  == actions[1]
            ok == IF a.type = OFPAT_SET_VLAN_PCP THEN a.b[1] <= 7
                  ELSE Field16(a) <= 4095
        IN  error = IF ok THEN Success ELSE BAD_ARGUMENT

----------------------------------------------------------------------------
(* Properties of the netmask arithmetic.                                   *)

MaskOf(k) == k .. 31

\* C19 as stated: for n in 0..32 ofputil_wcbits_to_netmask(n) has its top
\* 32-n bits set and its bottom n bits clear, ofputil_netmask_to_wcbits()
\* never fails its CIDR assertion on it and gives n back; for every n > 32
\* ofputil_wcbits_to_netmask(n) is 0.
C19_NetmaskAsStated ==
    /\ pc # "abort"
    /\ pc \in {"mask", "back"} =>
          nm_mask[1] = IF nm_wcbits <= 32 THEN MaskOf(nm_wcbits) ELSE {}
    /\ (pc = "back" /\ nm_wcbits <= 32) => nm_back = nm_wcbits

\* C19, amended: for n in 0..32 ofputil_wcbits_to_netmask(n) has its top
\* 32-n bits set and its bottom n bits clear, ofputil_netmask_to_wcbits()
\* never fails its CIDR assertion on a mask ofputil_wcbits_to_netmask()
\* returned and gives n back; for n > 32 the mask is that of n mod 64, which
\* is 0 when n mod 64 >= 32, so for every n in 33..63.
C19_Netmask ==
    /\ pc # "abort"
    /\ pc \in {"mask", "back"} =>
          nm_mask[1] = IF nm_wcbits % 64 <= 32 THEN MaskOf(nm_wcbits % 64)
                       ELSE {}
    /\ (pc = "back" /\ nm_wcbits <= 32) => nm_back = nm_wcbits

C19_Witness ==
    /\ pc = "back"
    /\ nm_wcbits = 24
    /\ nm_mask = <<MaskOf(24)>>
    /\ nm_back = 24

=============================================================================
